---- MODULE Spec2Model ----
(***************************************************************************)
(* AutoFlow orchestration core: the workflow registry                      *)
(* (autoflow-core/src/workflow.rs) and the per-sprint loop                 *)
(* Orchestrator::run_sprint (autoflow-core/src/orchestrator.rs), with the  *)
(* commit hook (autoflow-core/src/git.rs) and the result parsers, and the  *)
(* scheduler of the start command (autoflow-cli/src/commands/start.rs).    *)
(* On their own: execute_agent and the child process it supervises         *)
(* (autoflow-agents/src/executor.rs) and the rollback command              *)
(* (autoflow-cli/src/commands/rollback.rs).                                *)
(*                                                                         *)
(* Timestamps are abstracted to "unset" (FALSE) / "set" (TRUE).  An        *)
(* Option<u32> is the empty sequence (None) or a one-element sequence      *)
(* (Some(n)).  An agent's captured output is the sequence of its lines;    *)
(* only the marker lines matter to the parsers.                            *)
(***************************************************************************)
EXTENDS Integers, Sequences, FiniteSets, TLC

(* ------------------------------------------------------------------ *)
(* Bounds                                                             *)
(* ------------------------------------------------------------------ *)

\* Orchestrator::new(max_iterations): the loop bound of run_sprint.
MaxIterations == 8

\* The longest captured agent output handed to a parser, in lines.
MaxOutputLines == 3

(* ------------------------------------------------------------------ *)
(* autoflow-data: SprintStatus, WorkflowType, Sprint                  *)
(* ------------------------------------------------------------------ *)

Pending        == "PENDING"
WriteUnitTests == "WRITE_UNIT_TESTS"
WriteCode      == "WRITE_CODE"
CodeReview     == "CODE_REVIEW"
ReviewFix      == "REVIEW_FIX"
RunUnitTests   == "RUN_UNIT_TESTS"
UnitFix        == "UNIT_FIX"
WriteE2eTests  == "WRITE_E2E_TESTS"
RunE2eTests    == "RUN_E2E_TESTS"
E2eFix         == "E2E_FIX"
Blocked        == "BLOCKED"
Complete       == "COMPLETE"
Done           == "DONE"

SprintStatus ==
    { Pending, WriteUnitTests, WriteCode, CodeReview, ReviewFix, RunUnitTests,
      UnitFix, WriteE2eTests, RunE2eTests, E2eFix, Blocked, Complete, Done }

Implementation == "IMPLEMENTATION"
Documentation  == "DOCUMENTATION"
Test           == "TEST"
Infrastructure == "INFRASTRUCTURE"
Refactor       == "REFACTOR"

WorkflowType == { Implementation, Documentation, Test, Infrastructure, Refactor }

\* Option<T>
None == << >>
Some(x) == << x >>

\* Sprint::is_done
is_done(s) == s.status = Done

(* ------------------------------------------------------------------ *)
(* autoflow-core/src/workflow.rs: the workflow registry               *)
(* ------------------------------------------------------------------ *)

\* Option<SprintStatus> of WorkflowPhase::fix_status: "None" or a status.
NoFix == "None"

WorkflowPhase(status, agent, max_turns, fix_status, max_retries, requires_validation) ==
    [ status |-> status, agent |-> agent, max_turns |-> max_turns,
      fix_status |-> fix_status, max_retries |-> max_retries,
      requires_validation |-> requires_validation ]

implementation_workflow ==
    << WorkflowPhase(Pending,        "none",             0,  NoFix,     1, FALSE),
       WorkflowPhase(WriteUnitTests, "test-writer",      6,  NoFix,     1, FALSE),
       WorkflowPhase(WriteCode,      "code-implementer", 10, NoFix,     1, FALSE),
       WorkflowPhase(CodeReview,     "reviewer",         5,  ReviewFix, 5, TRUE),
       WorkflowPhase(ReviewFix,      "review-fixer",     8,  NoFix,     5, FALSE),
       WorkflowPhase(RunUnitTests,   "unit-test-runner", 5,  UnitFix,   3, TRUE),
       WorkflowPhase(UnitFix,        "unit-fixer",       8,  NoFix,     3, FALSE),
       WorkflowPhase(WriteE2eTests,  "e2e-writer",       6,  NoFix,     1, FALSE),
       WorkflowPhase(RunE2eTests,    "e2e-test-runner",  5,  E2eFix,    3, TRUE),
       WorkflowPhase(E2eFix,         "e2e-fixer",        10, NoFix,     3, FALSE),
       WorkflowPhase(Complete,       "health-check",     5,  NoFix,     1, FALSE),
       WorkflowPhase(Done,           "none",             0,  NoFix,     0, FALSE) >>

documentation_workflow ==
    << WorkflowPhase(Pending,    "none",         0, NoFix,     1, FALSE),
       WorkflowPhase(WriteCode,  "doc-writer",   8, NoFix,     1, FALSE),
       WorkflowPhase(CodeReview, "doc-reviewer", 5, ReviewFix, 3, TRUE),
       WorkflowPhase(ReviewFix,  "doc-fixer",    6, NoFix,     3, FALSE),
       WorkflowPhase(Complete,   "health-check", 5, NoFix,     1, FALSE),
       WorkflowPhase(Done,       "none",         0, NoFix,     0, FALSE) >>

test_workflow ==
    << WorkflowPhase(Pending,      "none",             0, NoFix,     1, FALSE),
       WorkflowPhase(WriteCode,    "test-implementer", 8, NoFix,     1, FALSE),
       WorkflowPhase(CodeReview,   "reviewer",         5, ReviewFix, 3, TRUE),
       WorkflowPhase(ReviewFix,    "review-fixer",     6, NoFix,     3, FALSE),
       WorkflowPhase(RunUnitTests, "unit-test-runner", 5, UnitFix,   3, TRUE),
       WorkflowPhase(UnitFix,      "unit-fixer",       8, NoFix,     3, FALSE),
       WorkflowPhase(Complete,     "health-check",     5, NoFix,     1, FALSE),
       WorkflowPhase(Done,         "none",             0, NoFix,     0, FALSE) >>

infrastructure_workflow ==
    << WorkflowPhase(Pending,       "none",                    0,  NoFix,     1, FALSE),
       WorkflowPhase(WriteCode,     "infra-implementer",       10, NoFix,     1, FALSE),
       WorkflowPhase(CodeReview,    "reviewer",                5,  ReviewFix, 5, TRUE),
       WorkflowPhase(ReviewFix,     "review-fixer",            8,  NoFix,     5, FALSE),
       WorkflowPhase(WriteE2eTests, "integration-test-writer", 6,  NoFix,     1, FALSE),
       WorkflowPhase(RunE2eTests,   "integration-test-runner", 5,  E2eFix,    3, TRUE),
       WorkflowPhase(E2eFix,        "integration-fixer",       10, NoFix,     3, FALSE),
       WorkflowPhase(Complete,      "health-check",            5,  NoFix,     1, FALSE),
       WorkflowPhase(Done,          "none",                    0,  NoFix,     0, FALSE) >>

refactor_workflow ==
    << WorkflowPhase(Pending,        "none",                 0,  NoFix,     1, FALSE),
       WorkflowPhase(WriteUnitTests, "test-verifier",        5,  NoFix,     1, FALSE),
       WorkflowPhase(WriteCode,      "refactor-implementer", 10, NoFix,     1, FALSE),
       WorkflowPhase(CodeReview,     "reviewer",             5,  ReviewFix, 5, TRUE),
       WorkflowPhase(ReviewFix,      "review-fixer",         8,  NoFix,     5, FALSE),
       WorkflowPhase(RunUnitTests,   "unit-test-runner",     5,  UnitFix,   3, TRUE),
       WorkflowPhase(UnitFix,        "unit-fixer",           8,  NoFix,     3, FALSE),
       WorkflowPhase(Complete,       "health-check",         5,  NoFix,     1, FALSE),
       WorkflowPhase(Done,           "none",                 0,  NoFix,     0, FALSE) >>

\* The phase list of a workflow type.
get_workflow_definition(workflow_type) ==
    CASE workflow_type = Implementation -> implementation_workflow
      [] workflow_type = Documentation  -> documentation_workflow
      [] workflow_type = Test           -> test_workflow
      [] workflow_type = Infrastructure -> infrastructure_workflow
      [] workflow_type = Refactor       -> refactor_workflow

\* phases.iter().position(|p| p.status == status): 0 when there is none.
position(phases, status) ==
    IF \E i \in 1..Len(phases) : phases[i].status = status
    THEN CHOOSE i \in 1..Len(phases) :
            /\ phases[i].status = status
            /\ \A j \in 1..(i - 1) : phases[j].status # status
    ELSE 0

\* WorkflowDefinition::get_phase: Option<&WorkflowPhase>.
get_phase(phases, status) ==
    IF position(phases, status) = 0 THEN None
    ELSE Some(phases[position(phases, status)])

\* WorkflowDefinition::next_phase: the phase at index + 1.
next_phase(phases, current) ==
    LET idx == position(phases, current) IN
    IF idx = 0 \/ idx + 1 > Len(phases) THEN None ELSE Some(phases[idx + 1])

\* WorkflowDefinition::get_fix_phase.
get_fix_phase(phases, status) ==
    LET phase == get_phase(phases, status) IN
    IF phase = None THEN None
    ELSE IF phase[1].fix_status = NoFix THEN None
    ELSE get_phase(phases, phase[1].fix_status)

\* WorkflowDefinition::is_fix_phase: the status is the fix target of a phase.
is_fix_phase(phases, status) ==
    \E i \in 1..Len(phases) : phases[i].fix_status = status

\* WorkflowDefinition::get_validation_phase_for_fix: the (first) phase whose
\* fix_status is the given fix status.
get_validation_phase_for_fix(phases, fix_status) ==
    IF \E i \in 1..Len(phases) : phases[i].fix_status = fix_status
    THEN Some(phases[CHOOSE i \in 1..Len(phases) :
                        /\ phases[i].fix_status = fix_status
                        /\ \A j \in 1..(i - 1) : phases[j].fix_status # fix_status])
    ELSE None

\* WorkflowDefinition::next_phase_skip_fix: the first phase after the current
\* one whose status is not itself a fix-phase target.
next_phase_skip_fix(phases, current) ==
    LET idx == position(phases, current)
        later == { i \in (idx + 1)..Len(phases) : ~is_fix_phase(phases, phases[i].status) }
    IN  IF idx = 0 \/ later = {} THEN None
        ELSE Some(phases[CHOOSE i \in later : \A j \in later : i <= j])

(* ------------------------------------------------------------------ *)
(* autoflow-core/src/orchestrator.rs: result parsers                  *)
(* ------------------------------------------------------------------ *)

TEST_PASSED   == "TEST_RESULT: PASSED"
TEST_FAILED   == "TEST_RESULT: FAILED"
REVIEW_PASSED == "REVIEW_STATUS: PASSED"
REVIEW_FAILED == "REVIEW_STATUS: FAILED"

\* str::contains on the captured output, seen as its lines.
contains(output, marker) == \E i \in 1..Len(output) : output[i] = marker

\* Mutant: output without a marker counts as failed.
parse_test_results_strict(output) == contains(output, TEST_PASSED)

\* parse_test_results
parse_test_results(output) ==
    IF contains(output, TEST_PASSED) THEN TRUE
    ELSE IF contains(output, TEST_FAILED) THEN FALSE
    ELSE TRUE

\* parse_review_results
parse_review_results(output) ==
    IF contains(output, REVIEW_PASSED) THEN TRUE
    ELSE IF contains(output, REVIEW_FAILED) THEN FALSE
    ELSE TRUE

(* ------------------------------------------------------------------ *)
(* The agent supervisor as seen by the orchestrator                   *)
(* ------------------------------------------------------------------ *)

\* What execute_agent hands back: Err(_), or Ok(AgentResult {success, output}).
AgentErr == [ kind |-> "err", success |-> FALSE, output |-> << >> ]
AgentResult(success, output) == [ kind |-> "result", success |-> success, output |-> output ]

\* The outputs an agent run at a status is drawn from.  The executor reads the
\* output only at the three validating statuses, and there only for the marker
\* of its own kind.
AgentOutputs(status) ==
    IF status \in { RunUnitTests, RunE2eTests }
    THEN { << >>, << TEST_PASSED >>, << TEST_FAILED >> }
    ELSE IF status = CodeReview
    THEN { << >>, << REVIEW_PASSED >>, << REVIEW_FAILED >> }
    ELSE { << >> }

AgentOutcomes(status) ==
    { AgentErr, AgentResult(FALSE, << >>) }
        \cup { AgentResult(TRUE, o) : o \in AgentOutputs(status) }

(* ------------------------------------------------------------------ *)
(* Orchestrator::execute_phase                                        *)
(* ------------------------------------------------------------------ *)

Advance == "advance"
Retry   == "retry"
Failed  == "error"

\* The agent execute_phase invokes for the sprint: "missing" when the status
\* has no phase in the workflow, "none" when nothing is invoked.
phase_agent(s) ==
    LET phase == get_phase(get_workflow_definition(s.workflow_type), s.status) IN
    IF phase = None THEN "missing"
    ELSE IF s.status = Pending THEN "none"
    ELSE phase[1].agent

\* Mutant: the test verdict is parsed at every status.
execute_phase_parses_everywhere(s, r) ==
    IF phase_agent(s) = "missing" THEN Failed
    ELSE IF phase_agent(s) = "none" THEN Advance
    ELSE IF r.kind = "err" THEN Failed
    ELSE IF r.success
    THEN (IF parse_test_results(r.output) THEN Advance ELSE Retry)
    ELSE Retry

\* The decision of execute_phase: Ok(true), Ok(false) or Err(_), given what
\* the agent run (if there is one) hands back.
execute_phase(s, r) ==
    IF phase_agent(s) = "missing" THEN Failed
    ELSE IF phase_agent(s) = "none" THEN Advance
    ELSE IF r.kind = "err" THEN Failed
    ELSE IF r.success
    THEN IF s.status \in { RunUnitTests, RunE2eTests }
         THEN (IF parse_test_results(r.output) THEN Advance ELSE Retry)
         ELSE IF s.status = CodeReview
         THEN (IF parse_review_results(r.output) THEN Advance ELSE Retry)
         ELSE Advance
    ELSE Retry

\* Orchestrator::run_blocker_resolver: Ok(analysis) or Err(_).
run_blocker_resolver(r) == r.kind = "result" /\ r.success

(* ------------------------------------------------------------------ *)
(* autoflow-core/src/git.rs: the commit hook                          *)
(* ------------------------------------------------------------------ *)

\* What commit_project_changes can meet in the project directory, in the
\* order it looks: no .git directory, git status cannot be run, nothing to
\* commit, git add cannot be run, git add fails, git diff cannot be run,
\* nothing staged, git commit cannot be run, git commit fails, commit created.
GitSituations ==
    { "no_repo", "status_error", "clean", "add_error", "add_failed",
      "diff_error", "nothing_staged", "commit_error", "commit_failed", "committed" }

\* commit_project_changes: Err when a git command cannot be run, Ok otherwise
\* (a missing repository, nothing to commit and a failing git add or git
\* commit are skipped or logged).
commit_project_changes(git) ==
    IF git \in { "status_error", "add_error", "diff_error", "commit_error" }
    THEN "Err" ELSE "Ok"

\* Mutant: only the write phases and DONE are committed.
should_commit_write_only(status) ==
    status \in { WriteCode, WriteUnitTests, WriteE2eTests, Done }

\* should_commit_after_phase
should_commit_after_phase(status) ==
    CASE status = WriteCode -> TRUE
      [] status = WriteUnitTests -> TRUE
      [] status = WriteE2eTests -> TRUE
      [] status = CodeReview -> TRUE
      [] status = RunUnitTests -> TRUE
      [] status = RunE2eTests -> TRUE
      [] status = Done -> TRUE
      [] status = Complete -> TRUE
      [] status = ReviewFix -> TRUE
      [] status = UnitFix -> TRUE
      [] status = E2eFix -> TRUE
      [] status = Pending -> FALSE
      [] status = Blocked -> FALSE

\* One call of the hook and what it returned.
CommitCall(git) == [ called |-> TRUE, result |-> commit_project_changes(git) ]

\* No call of the hook.
NoCommit == [ called |-> FALSE, result |-> "none" ]

\* The record of the hook in an iteration that does or does not invoke it.
HookCalls(invoked) ==
    IF invoked THEN { CommitCall(git) : git \in GitSituations } ELSE { NoCommit }

\* Mutant: a hook that returns Err blocks the sprint.
after_commit_hard(s, c) ==
    IF c.result = "Err" THEN [ s EXCEPT !.status = Blocked ] ELSE s

\* if let Err(e) = commit_project_changes(..) { tracing::warn!(..) }: the
\* sprint after the hook returned c.
after_commit(s, c) == s

(* ------------------------------------------------------------------ *)
(* The archival of failure reports before an agent runs               *)
(* ------------------------------------------------------------------ *)

\* The failure report an agent writes for the sprint, by its kind; "none" for
\* an agent that writes none (the match on agent_name).
failure_file(agent_name) ==
    CASE agent_name = "reviewer"         -> "review"
      [] agent_name = "unit-test-runner" -> "unit-tests"
      [] agent_name = "e2e-test-runner"  -> "integration-tests"
      [] agent_name = "blocker-resolver" -> "blocker-analysis"
      [] OTHER                           -> "none"

\* archive_failure_reports_before_agent: "nothing" when the agent has no
\* report or none is in place, "archived" when the report was copied,
\* "warned" when the archive directory or the copy failed.
archive_failure_reports_before_agent(agent_name, exists, fs_ok) ==
    IF failure_file(agent_name) = "none" \/ ~exists THEN "nothing"
    ELSE IF fs_ok THEN "archived"
    ELSE "warned"

\* The archival is not followed.
Untracked == [ tracked |-> FALSE, agent |-> "none", exists |-> FALSE, outcome |-> "none" ]

\* The iteration invoked no agent.
NoInvocation == [ tracked |-> TRUE, agent |-> "none", exists |-> FALSE, outcome |-> "none" ]

\* What precedes the invocation of an agent: whether its report of an earlier
\* run is in place, and what the archival did ("not_called" where the code
\* has no call).
ArchiveCalls(tracked, agent_name, called) ==
    IF ~tracked THEN { Untracked }
    ELSE IF agent_name \in { "none", "missing" } THEN { NoInvocation }
    ELSE { [ tracked |-> TRUE, agent |-> agent_name, exists |-> exists,
             outcome |-> IF called
                         THEN archive_failure_reports_before_agent(agent_name, exists, fs_ok)
                         ELSE "not_called" ] :
             exists \in BOOLEAN, fs_ok \in BOOLEAN }

(* ------------------------------------------------------------------ *)
(* Orchestrator::run_sprint: the pieces of one loop iteration         *)
(* ------------------------------------------------------------------ *)

\* retry_count: HashMap<SprintStatus, u32>, a function on the keys present.
EmptyMap == [ k \in {} |-> 0 ]

\* The value the loop reads for a key: entry(k).or_insert(0).
Count(map, k) == IF k \in DOMAIN map THEN map[k] ELSE 0

\* HashMap::insert
insert(map, k, v) == [ x \in (DOMAIN map) \cup {k} |-> IF x = k THEN v ELSE map[x] ]

\* Mutant: an advance clears every counter.
reset_retry_all(map, current_status) ==
    [ x \in (DOMAIN map) \cup {current_status} |-> 0 ]

\* retry_count.insert(current_status, 0) of the advance branch.
reset_retry(map, current_status) == insert(map, current_status, 0)

\* *retry_count.entry(current_status).or_insert(0) += 1
bump_retry(map, current_status) == insert(map, current_status, Count(map, current_status) + 1)

\* workflow.get_phase(current_status).map(|p| p.max_retries).unwrap_or(1)
max_retries_of(s) ==
    LET phase == get_phase(get_workflow_definition(s.workflow_type), s.status) IN
    IF phase = None THEN 1 ELSE phase[1].max_retries

\* Mutant: the ceiling is only hit once the counter exceeds max_retries.
ceiling_exceeded(count, max_retries) == count > max_retries

\* if *count >= max_retries
ceiling_reached(count, max_retries) == count >= max_retries

\* sprint.status = Blocked; sprint.blocked_count = Some(*count)
mark_blocked(s, count) == [ s EXCEPT !.status = Blocked, !.blocked_count = Some(count) ]

\* Mutant: a fix phase advances forward like any other phase.
next_status_always_forward(s) ==
    LET workflow == get_workflow_definition(s.workflow_type)
        target == next_phase_skip_fix(workflow, s.status)
    IN  IF target = None THEN None ELSE Some(target[1].status)

\* Mutant: a forward advance takes the next phase of the list, fix phase or not.
next_status_no_skip(s) ==
    LET workflow == get_workflow_definition(s.workflow_type)
        target == IF is_fix_phase(workflow, s.status)
                  THEN get_validation_phase_for_fix(workflow, s.status)
                  ELSE next_phase(workflow, s.status)
    IN  IF target = None THEN None ELSE Some(target[1].status)

\* The status an advancing phase moves to: back to the validation phase after
\* a fix phase, otherwise forward, skipping fix phases.  Option<SprintStatus>.
next_status(s) ==
    LET workflow == get_workflow_definition(s.workflow_type)
        target == IF is_fix_phase(workflow, s.status)
                  THEN get_validation_phase_for_fix(workflow, s.status)
                  ELSE next_phase_skip_fix(workflow, s.status)
    IN  IF target = None THEN None ELSE Some(target[1].status)

\* The sprint after an Ok(true) decision.
after_advance(s) ==
    IF next_status(s) = None THEN s
    ELSE [ s EXCEPT !.status = next_status(s)[1] ]

\* Mutant: blocked_count is written on every retry, also on the way to a fix phase.
after_retry_records_count(s, count) ==
    LET workflow == get_workflow_definition(s.workflow_type) IN
    IF ceiling_reached(count, max_retries_of(s)) THEN mark_blocked(s, count)
    ELSE IF s.uses_blocker_resolver THEN mark_blocked(s, count)
    ELSE IF get_fix_phase(workflow, s.status) # None
         THEN [ s EXCEPT !.status = get_fix_phase(workflow, s.status)[1].status,
                         !.blocked_count = Some(count) ]
         ELSE s

\* Mutant: the uses_blocker_resolver branch is missing.
after_retry_ignores_resolver(s, count) ==
    LET workflow == get_workflow_definition(s.workflow_type) IN
    IF ceiling_reached(count, max_retries_of(s)) THEN mark_blocked(s, count)
    ELSE IF get_fix_phase(workflow, s.status) # None
         THEN [ s EXCEPT !.status = get_fix_phase(workflow, s.status)[1].status ]
         ELSE s

\* The sprint after an Ok(false) decision; count is the bumped counter.
after_retry(s, count) ==
    LET workflow == get_workflow_definition(s.workflow_type) IN
    IF ceiling_reached(count, max_retries_of(s)) THEN mark_blocked(s, count)
    ELSE IF s.uses_blocker_resolver THEN mark_blocked(s, count)
    ELSE IF get_fix_phase(workflow, s.status) # None
         THEN [ s EXCEPT !.status = get_fix_phase(workflow, s.status)[1].status ]
         ELSE s

\* Mutant: an executor error is handled as an Ok(false) decision.
after_error_as_retry(s, count) == after_retry(s, count)

\* Mutant: an executor error never blocks the sprint.
after_error_never_blocks(s, count) == s

\* The sprint after an Err(_) of the phase executor; count is the bumped counter.
after_error(s, count) ==
    IF ceiling_reached(count, max_retries_of(s)) THEN mark_blocked(s, count) ELSE s

\* Mutant: the completion timestamp is never written.
complete_never(s) == s

\* Whether the end of run_sprint assigns completed_at:
\* sprint.is_done() && sprint.completed_at.is_none()
sets_completed_at(s) == is_done(s) /\ ~s.completed_at

\* if sprint.is_done() && sprint.completed_at.is_none() { completed_at = now }
complete(s) ==
    IF sets_completed_at(s) THEN [ s EXCEPT !.completed_at = TRUE ] ELSE s

\* Mutant: the recovery does not reset blocked_count.
after_recovery_keeps_count(s) ==
    [ s EXCEPT !.uses_blocker_resolver = TRUE, !.status = RunUnitTests ]

\* Mutant: the recovery leaves the sprint BLOCKED.
after_recovery_stays_blocked(s) ==
    [ s EXCEPT !.uses_blocker_resolver = TRUE, !.blocked_count = Some(0) ]

\* The sprint after a successful blocker-resolver run.
after_recovery(s) ==
    [ s EXCEPT !.uses_blocker_resolver = TRUE,
               !.status = RunUnitTests,
               !.blocked_count = Some(0) ]

(* ------------------------------------------------------------------ *)
(* The start command: selection of the sprints to run                 *)
(* ------------------------------------------------------------------ *)

\* A document (SprintsYaml.sprints) is a sequence of sprints; each carries,
\* besides the fields run_sprint works on, id, must_complete_first and
\* dependencies (the set of its dependency strings).

\* sprints.iter().position(|s| s.id == sprint_id): Option<usize>
find_position(sprints, sprint_id) ==
    LET hits == { i \in 1..Len(sprints) : sprints[i].id = sprint_id } IN
    IF hits = {} THEN None
    ELSE Some(CHOOSE i \in hits : \A j \in hits : i <= j)

\* The decimal digits.
Digit(n) == << "0", "1", "2", "3", "4", "5", "6", "7", "8", "9" >>[n + 1]

\* u32::to_string: the decimal numeral of the id, without leading zeros.
RECURSIVE to_string(_)
to_string(n) == IF n < 10 THEN Digit(n) ELSE to_string(n \div 10) \o Digit(n % 10)

\* sprints.iter().find(|other| other.id.to_string() == *dep_id): Option<usize>
find_dependency(sprints, dep_id) ==
    LET hits == { i \in 1..Len(sprints) : to_string(sprints[i].id) = dep_id } IN
    IF hits = {} THEN None
    ELSE Some(CHOOSE i \in hits : \A j \in hits : i <= j)

\* Mutant: no sprint waits for its dependencies.
dependencies_ignored(sprints, s) == TRUE

\* Mutant: a dependency that names no sprint is never satisfied.
dependencies_known_only(sprints, s) ==
    \A dep_id \in s.dependencies :
        /\ find_dependency(sprints, dep_id) # None
        /\ sprints[find_dependency(sprints, dep_id)[1]].status = Done

\* s.dependencies.iter().all(|dep_id| find(dep_id).map(Done).unwrap_or(true))
dependencies_satisfied(sprints, s) ==
    \A dep_id \in s.dependencies :
        \/ find_dependency(sprints, dep_id) = None
        \/ sprints[find_dependency(sprints, dep_id)[1]].status = Done

\* Mutant: every status is runnable.
is_runnable_status_any(s) == TRUE

\* let is_runnable_status = s.status != SprintStatus::Done
is_runnable_status(s) == s.status # Done

\* Mutant: a BLOCKED critical sprint does not preempt the selection.
blocked_critical_ignored(sprints) == None

\* The first sprint with must_complete_first that is BLOCKED: Option<usize>
blocked_critical_sprint(sprints) ==
    LET hits == { i \in 1..Len(sprints) :
                    sprints[i].must_complete_first /\ sprints[i].status = Blocked } IN
    IF hits = {} THEN None
    ELSE Some(CHOOSE i \in hits : \A j \in hits : i <= j)

\* Mutant: the initial selection does not look at the dependencies.
runnable_initial_any(sprints) ==
    { i \in 1..Len(sprints) : is_runnable_status(sprints[i]) }

\* The runnable filter of the initial selection (a set of positions).
runnable_initial(sprints) ==
    { i \in 1..Len(sprints) :
        is_runnable_status(sprints[i]) /\ dependencies_satisfied(sprints, sprints[i]) }

has_incomplete_critical(sprints) ==
    \E i \in 1..Len(sprints) :
        sprints[i].must_complete_first /\ sprints[i].status # Done

\* The runnable filter of the continuous loop (a set of positions).
runnable_continuous(sprints) ==
    { i \in 1..Len(sprints) :
        /\ is_runnable_status(sprints[i])
        /\ ~(has_incomplete_critical(sprints) /\ ~sprints[i].must_complete_first)
        /\ dependencies_satisfied(sprints, sprints[i]) }

is_in_progress(s) == s.status # Pending /\ s.status # Done

\* bool as it orders in a sort key: false < true.
Rank(b) == IF b THEN 1 ELSE 0

\* Mutant: the key is the id alone.
priority_key_id_only(s) == << 0, 0, s.id >>

\* The key (!is_in_progress, !is_critical, sprint.id).
priority_key(s) == << Rank(~is_in_progress(s)), Rank(~s.must_complete_first), s.id >>

\* Lexicographic order of two keys.
KeyLess(a, b) ==
    \/ a[1] < b[1]
    \/ a[1] = b[1] /\ a[2] < b[2]
    \/ a[1] = b[1] /\ a[2] = b[2] /\ a[3] < b[3]

\* The positions of idxs before which position i sorts: smaller key, or equal
\* key and smaller position (sort_by_key is stable, min_by_key takes the first).
Before(sprints, idxs, i) ==
    { j \in idxs :
        \/ KeyLess(priority_key(sprints[j]), priority_key(sprints[i]))
        \/ (priority_key(sprints[j]) = priority_key(sprints[i]) /\ j < i) }

\* runnable.iter().min_by_key(key)
select_next(sprints, idxs) ==
    CHOOSE i \in idxs : Before(sprints, idxs, i) = {}

\* indices_to_run.sort_by_key(key), for a set of positions.
sort_by_key(sprints, idxs) ==
    [ k \in 1..Cardinality(idxs) |->
        CHOOSE i \in idxs : Cardinality(Before(sprints, idxs, i)) = k - 1 ]

\* A set of positions as the Vec the filter collects: ascending.
Ascending(idxs) ==
    [ k \in 1..Cardinality(idxs) |->
        CHOOSE i \in idxs : Cardinality({ j \in idxs : j < i }) = k - 1 ]

\* sprint_indices: None for the error (the id of --sprint names no sprint),
\* or Some(the positions).
sprint_indices(sprints, arg) ==
    IF arg # None
    THEN (IF find_position(sprints, arg[1]) = None THEN None
          ELSE Some(<< find_position(sprints, arg[1])[1] >>))
    ELSE IF blocked_critical_sprint(sprints) # None
    THEN Some(<< blocked_critical_sprint(sprints)[1] >>)
    ELSE Some(Ascending(runnable_initial(sprints)))

\* Mutant: the callback overwrites the first sprint of the file.
merge_into_first(file, updated_sprint) == [ file EXCEPT ![1] = updated_sprint ]

\* The save callback of sequential mode: load the file, replace the sprint
\* with the id of updated_sprint, write the file back.  A load that fails, or
\* a file without that id, writes nothing.
merge_by_id(file, updated_sprint) ==
    IF find_position(file, updated_sprint.id) = None THEN file
    ELSE [ file EXCEPT ![find_position(file, updated_sprint.id)[1]] = updated_sprint ]

(* ------------------------------------------------------------------ *)
(* State                                                              *)
(* ------------------------------------------------------------------ *)

VARIABLES
    sprint,         \* the Sprint run_sprint works on
    retry_count,    \* run_sprint's local retry_count map
    iteration,      \* run_sprint's local iteration counter
    pc,             \* "idle" (not yet called), "loop" (at the loop head), "returned"
    result,         \* what run_sprint returned
    save_callback,  \* whether the orchestrator has a save callback
    enable_auto_commit, \* the orchestrator's enable_auto_commit
    project_path,   \* whether the orchestrator's project_path is set
    commit,         \* history: the commit-hook call of the last iteration
    archive,        \* history: the report archival before the agent of the last iteration
    saved,          \* Option: the sprint last handed to the save callback
    save_calls,     \* number of save-callback calls
    last,           \* history: the phase execution / resolver run of the last iteration
    executions,     \* history: per status, its executions since the last advance out of it
    since_recovery, \* history: the same, counted afresh after each blocker recovery
    resolver_runs,  \* history: number of blocker-resolver invocations
    observe,        \* whether the full history below is recorded
    initial,        \* history: the sprint as handed to run_sprint
    trajectory,     \* history: the statuses the sprint went through
    log,            \* history: one entry per phase execution / resolver run
    sprints_data,   \* start: the document in memory (a sequence of sprints)
    file,           \* start: the sprints of the backlog file on disk
    sprint_arg,     \* start: the --sprint option, Option<id>
    parallel,       \* start: the --parallel flag
    spc,            \* start: where the command is
    selected,       \* start: sprint_indices
    queue,          \* start: the positions of the initial batch still to run
    has_callback,   \* start: whether the orchestrator was given the save callback
    tasks,          \* start: the run_sprint calls in progress, one per handed-over sprint
    runs,           \* start: number of sprints handed to run_sprint so far
    handover,       \* history: the last hand-over to run_sprint and the one before
    doc_saves,      \* history: number of whole-document saves of the command
    callback_arg,   \* history: the sprint the save callback was last called with
    backlog,        \* history: the sprints of the backlog file as the command loaded them
    parse_input,    \* parsers: the captured output handed to a parser
    parse_result,   \* parsers: Option, the parser applied and its verdict
    agent_run,      \* execute_agent: one call, its child process and the three pipes
    rollback        \* the rollback command: its argument, document, file and position

runvars == << sprint, retry_count, iteration, pc, result, save_callback,
              enable_auto_commit, project_path, commit, archive, saved, save_calls, last,
              executions, since_recovery, resolver_runs, observe, initial,
              trajectory, log >>

startvars == << sprints_data, file, backlog, sprint_arg, parallel, spc, selected,
                queue, has_callback, tasks, runs, handover, doc_saves,
                callback_arg >>

parservars == << parse_input, parse_result >>

cmdvars == << agent_run, rollback >>

vars == << runvars, startvars, parservars, cmdvars >>

BlockerResolver == "blocker-resolver"

\* The placeholder outcome of a phase that runs no agent.
NoAgentRun == [ kind |-> "none", success |-> FALSE, output |-> << >> ]

PhaseOutcomes(s) ==
    IF phase_agent(s) \in { "missing", "none" } THEN { NoAgentRun }
    ELSE AgentOutcomes(s.status)

LogEntry(s, agent, outcome, decision) ==
    [ status |-> s.status, agent |-> agent, outcome |-> outcome, decision |-> decision ]

NoEntry == [ status |-> "None", agent |-> "None", outcome |-> NoAgentRun, decision |-> "None" ]

\* The sprints a backlog file can hand to run_sprint.
InitialSprints ==
    { [ status |-> st, workflow_type |-> wt, started |-> sd, completed_at |-> ca,
        blocked_count |-> bc, uses_blocker_resolver |-> ub ] :
        st \in SprintStatus, wt \in WorkflowType, sd \in BOOLEAN, ca \in BOOLEAN,
        bc \in { None, Some(3) }, ub \in BOOLEAN }

\* The ones the model starts from: timestamps and blocked_count as the loop
\* itself leaves them for the status.  uses_blocker_resolver is only ever set
\* by the BLOCKED branch, which leaves the sprint at RUN_UNIT_TESTS, so a
\* sprint that carries the flag is not in a fix phase.
ConsistentSprint(s) ==
    /\ s.started = (s.status # Pending)
    /\ s.completed_at = (s.status = Done)
    /\ (s.blocked_count # None) = (s.status = Blocked)
    /\ s.uses_blocker_resolver => s.status \notin { ReviewFix, UnitFix, E2eFix }

NoSprint == [ status |-> "None" ]

\* History of the hand-overs to run_sprint: how sprint_indices was selected,
\* the position last handed over (0: none yet), where it was handed over
\* ("batch", "continuous" or "parallel"), what its run_sprint returned
\* ("running" until it has), the sprint as it was handed over (when the full
\* history is recorded), and the position and result of the one before.
NoHandover ==
    [ selection |-> "none", idx |-> 0, mode |-> "none", result |-> "none",
      handed |-> NoSprint, prev_idx |-> 0, prev_result |-> "none" ]

\* The start command is not running.
StartIdle ==
    /\ sprints_data = << >>
    /\ file = << >>
    /\ backlog = << >>
    /\ sprint_arg = None
    /\ parallel = FALSE
    /\ spc = "none"
    /\ selected = << >>
    /\ queue = << >>
    /\ has_callback = FALSE
    /\ tasks = << >>
    /\ runs = 0
    /\ handover = NoHandover
    /\ doc_saves = 0
    /\ callback_arg = None

\* No parser is being applied.
ParserIdle == parse_input = << >> /\ parse_result = None

\* Neither execute_agent on its own nor the rollback command is running.
CmdIdle == agent_run = [ pc |-> "none" ] /\ rollback = [ pc |-> "none" ]

\* The orchestrators the program builds: Orchestrator::new alone, the one of
\* parallel mode (project path, auto-commit) and the one of sequential mode
\* (project path, auto-commit, save callback).
\* << save_callback, project_path, enable_auto_commit >>
OrchestratorConfigs ==
    { << FALSE, FALSE, FALSE >>, << FALSE, TRUE, TRUE >>, << TRUE, TRUE, TRUE >> }

InitCommon ==
    /\ StartIdle
    /\ ParserIdle
    /\ CmdIdle
    /\ commit = NoCommit
    /\ retry_count = EmptyMap
    /\ iteration = 0
    /\ pc = "idle"
    /\ result = "none"
    /\ saved = None
    /\ save_calls = 0
    /\ last = NoEntry
    /\ executions = EmptyMap
    /\ since_recovery = EmptyMap
    /\ resolver_runs = 0
    /\ log = << >>

\* Any sprint, with or without a save callback; the full history is off.
Init ==
    /\ sprint \in { s \in InitialSprints : ConsistentSprint(s) }
    /\ \E cfg \in OrchestratorConfigs :
          /\ save_callback = cfg[1]
          /\ project_path = cfg[2]
          /\ enable_auto_commit = cfg[3]
    /\ observe = FALSE
    /\ initial = NoSprint
    /\ trajectory = << >>
    /\ archive = Untracked
    /\ InitCommon

\* The starting points of the end-to-end scenarios, with the full history on:
\* a fresh IMPLEMENTATION sprint that is PENDING, or at RUN_UNIT_TESTS.
InitTrace ==
    /\ sprint \in { s \in InitialSprints :
                      /\ ConsistentSprint(s)
                      /\ s.workflow_type = Implementation
                      /\ s.status \in { Pending, RunUnitTests }
                      /\ ~s.uses_blocker_resolver }
    /\ save_callback = TRUE
    /\ project_path = TRUE
    /\ enable_auto_commit = TRUE
    /\ observe = TRUE
    /\ initial = sprint
    /\ trajectory = << sprint.status >>
    /\ archive = Untracked
    /\ InitCommon

(* ------------------------------------------------------------------ *)
(* Orchestrator::run_sprint                                           *)
(* ------------------------------------------------------------------ *)

\* The history of one iteration: s is the sprint it found, t the one it left.
Observe(s, t, entry) ==
    /\ last' = entry
    /\ log' = IF observe THEN Append(log, entry) ELSE log
    /\ trajectory' = IF observe /\ t.status # s.status
                     THEN Append(trajectory, t.status) ELSE trajectory
    /\ resolver_runs' = IF entry.agent = BlockerResolver
                        THEN resolver_runs + 1 ELSE resolver_runs
    /\ executions' = IF entry.agent = BlockerResolver THEN executions
                     ELSE IF entry.decision = Advance
                     THEN insert(executions, s.status, 0)
                     ELSE insert(executions, s.status, Count(executions, s.status) + 1)
    /\ since_recovery' =
            IF entry.agent = BlockerResolver
            THEN (IF entry.decision = "recovered" THEN EmptyMap ELSE since_recovery)
            ELSE IF entry.decision = Advance
            THEN insert(since_recovery, s.status, 0)
            ELSE insert(since_recovery, s.status, Count(since_recovery, s.status) + 1)

\* if let Some(ref save_fn) = self.save_callback { save_fn(sprint)?; }
\* ok is what the callback returns; without a callback nothing can fail.
SaveProgress(ok) ==
    /\ (~save_callback) => ok
    /\ saved' = IF save_callback THEN Some(sprint') ELSE saved
    /\ save_calls' = IF save_callback THEN save_calls + 1 ELSE save_calls
    /\ pc' = IF ok THEN "loop" ELSE "returned"
    /\ result' = IF ok THEN result ELSE "SaveFailed"

\* Entry: the locals are created and started is set if it was unset.
RunSprintStart ==
    /\ pc = "idle"
    /\ pc' = "loop"
    /\ sprint' = [ sprint EXCEPT !.started = TRUE ]
    /\ iteration' = 0
    /\ retry_count' = EmptyMap
    /\ UNCHANGED << result, save_callback, enable_auto_commit, project_path,
                    commit, archive, saved, save_calls, last, executions, since_recovery,
                    resolver_runs, observe, initial, trajectory, log, startvars,
                    parservars, cmdvars >>

\* Mutant: the loop allows one iteration more.
LoopGuardLate == ~is_done(sprint) /\ iteration <= MaxIterations

\* while !sprint.is_done() && iteration < self.max_iterations
LoopGuard == ~is_done(sprint) /\ iteration < MaxIterations

\* Whether the advance branch invokes the commit hook for the sprint:
\* if let Some(status) = next_status, enable_auto_commit,
\* should_commit_after_phase(previous_status), project_path set.
commits_after_advance(s) ==
    /\ next_status(s) # None
    /\ enable_auto_commit /\ should_commit_after_phase(s.status)
    /\ project_path

\* An iteration that finds the sprint BLOCKED; the resolver succeeds.
BlockerResolved ==
    /\ pc = "loop" /\ LoopGuard
    /\ sprint.status = Blocked
    /\ \E r \in AgentOutcomes(Blocked), ok \in BOOLEAN,
          c \in HookCalls(enable_auto_commit /\ project_path) :
        /\ run_blocker_resolver(r)
        /\ iteration' = iteration + 1
        /\ archive' \in ArchiveCalls(archive.tracked, BlockerResolver, FALSE)
        /\ commit' = c
        /\ sprint' = after_recovery(after_commit(sprint, c))
        /\ Observe(sprint, sprint', LogEntry(sprint, BlockerResolver, r, "recovered"))
        /\ SaveProgress(ok)
        /\ UNCHANGED << retry_count, save_callback, enable_auto_commit,
                        project_path, observe, initial, startvars, parservars, cmdvars >>

\* An iteration that finds the sprint BLOCKED; the resolver fails.
BlockerFailed ==
    /\ pc = "loop" /\ LoopGuard
    /\ sprint.status = Blocked
    /\ \E r \in AgentOutcomes(Blocked) :
        /\ ~run_blocker_resolver(r)
        /\ iteration' = iteration + 1
        /\ archive' \in ArchiveCalls(archive.tracked, BlockerResolver, FALSE)
        /\ Observe(sprint, sprint, LogEntry(sprint, BlockerResolver, r, "blocked"))
        /\ pc' = "returned"
        /\ result' = "SprintBlocked"
        /\ commit' = NoCommit
        /\ UNCHANGED << sprint, retry_count, save_callback, enable_auto_commit,
                        project_path, saved, save_calls, observe, initial,
                        startvars, parservars, cmdvars >>

\* An iteration whose phase returns Ok(true).
PhaseAdvance ==
    /\ pc = "loop" /\ LoopGuard
    /\ sprint.status # Blocked
    /\ \E r \in PhaseOutcomes(sprint), ok \in BOOLEAN,
          c \in HookCalls(commits_after_advance(sprint)) :
        /\ execute_phase(sprint, r) = Advance
        /\ iteration' = iteration + 1
        /\ archive' \in ArchiveCalls(archive.tracked, phase_agent(sprint), project_path)
        /\ retry_count' = reset_retry(retry_count, sprint.status)
        /\ commit' = c
        /\ sprint' = after_commit(after_advance(sprint), c)
        /\ Observe(sprint, sprint', LogEntry(sprint, phase_agent(sprint), r, Advance))
        /\ SaveProgress(ok)
        /\ UNCHANGED << save_callback, enable_auto_commit, project_path, observe,
                        initial, startvars, parservars, cmdvars >>

\* An iteration whose phase returns Ok(false).
PhaseRetry ==
    /\ pc = "loop" /\ LoopGuard
    /\ sprint.status # Blocked
    /\ \E r \in PhaseOutcomes(sprint), ok \in BOOLEAN :
        /\ execute_phase(sprint, r) = Retry
        /\ iteration' = iteration + 1
        /\ archive' \in ArchiveCalls(archive.tracked, phase_agent(sprint), project_path)
        /\ retry_count' = bump_retry(retry_count, sprint.status)
        /\ sprint' = after_retry(sprint, Count(retry_count', sprint.status))
        /\ commit' = NoCommit
        /\ Observe(sprint, sprint', LogEntry(sprint, phase_agent(sprint), r, Retry))
        /\ SaveProgress(ok)
        /\ UNCHANGED << save_callback, enable_auto_commit, project_path, observe,
                        initial, startvars, parservars, cmdvars >>

\* An iteration whose phase returns Err(_).
PhaseError ==
    /\ pc = "loop" /\ LoopGuard
    /\ sprint.status # Blocked
    /\ \E r \in PhaseOutcomes(sprint), ok \in BOOLEAN :
        /\ execute_phase(sprint, r) = Failed
        /\ iteration' = iteration + 1
        /\ archive' \in ArchiveCalls(archive.tracked, phase_agent(sprint), project_path)
        /\ retry_count' = bump_retry(retry_count, sprint.status)
        /\ sprint' = after_error(sprint, Count(retry_count', sprint.status))
        /\ commit' = NoCommit
        /\ Observe(sprint, sprint', LogEntry(sprint, phase_agent(sprint), r, Failed))
        /\ SaveProgress(ok)
        /\ UNCHANGED << save_callback, enable_auto_commit, project_path, observe,
                        initial, startvars, parservars, cmdvars >>

\* The loop ends: MaxIterationsExceeded, or completed_at is set and Ok(()).
RunSprintReturn ==
    /\ pc = "loop" /\ ~LoopGuard
    /\ pc' = "returned"
    /\ IF iteration >= MaxIterations /\ ~is_done(sprint)
       THEN /\ result' = "MaxIterationsExceeded"
            /\ sprint' = sprint
       ELSE /\ result' = "Ok"
            /\ sprint' = complete(sprint)
    /\ UNCHANGED << retry_count, iteration, save_callback, enable_auto_commit,
                    project_path, commit, archive, saved, save_calls, last, executions,
                    since_recovery, resolver_runs, observe, initial, trajectory,
                    log, startvars, parservars, cmdvars >>

Next ==
    \/ RunSprintStart
    \/ BlockerResolved
    \/ BlockerFailed
    \/ PhaseAdvance
    \/ PhaseRetry
    \/ PhaseError
    \/ RunSprintReturn

Spec == Init /\ [][Next]_vars

\* The same program from the scenario starting points, history recorded.
TraceSpec == InitTrace /\ [][Next]_vars

\* The starting points of the termination check: a sprint of the longest and
\* of the shortest workflow, PENDING or BLOCKED, under the orchestrator of
\* sequential mode.
InitFair ==
    /\ Init
    /\ sprint.workflow_type \in { Implementation, Documentation }
    /\ sprint.status \in { Pending, Blocked }
    /\ save_callback

\* The starting points with the archival followed: any sprint of the
\* implementation workflow.
InitArchive ==
    /\ sprint \in { s \in InitialSprints :
                      ConsistentSprint(s) /\ s.workflow_type = Implementation }
    /\ \E cfg \in OrchestratorConfigs :
          /\ save_callback = cfg[1]
          /\ project_path = cfg[2]
          /\ enable_auto_commit = cfg[3]
    /\ observe = FALSE
    /\ initial = NoSprint
    /\ trajectory = << >>
    /\ archive = NoInvocation
    /\ InitCommon

\* run_sprint with the failure reports and their archival followed.
ArchiveSpec == InitArchive /\ [][Next]_vars

\* run_sprint is an async fn awaited by its caller: a call that can take a
\* step eventually takes one.
FairSpec == InitFair /\ [][Next]_vars /\ WF_vars(Next)

(* ------------------------------------------------------------------ *)
(* The result parsers on their own                                    *)
(* ------------------------------------------------------------------ *)

\* The lines of a captured output that matter to the parsers, and any other.
OutputLines == { "other", TEST_PASSED, TEST_FAILED, REVIEW_PASSED, REVIEW_FAILED }

\* The captured outputs handed to the parsers.
Outputs == UNION { [ 1..n -> OutputLines ] : n \in 0..MaxOutputLines }

\* Neither run_sprint nor the start command is running.
RunIdle ==
    /\ sprint = NoSprint
    /\ save_callback = FALSE
    /\ project_path = FALSE
    /\ enable_auto_commit = FALSE
    /\ commit = NoCommit
    /\ archive = Untracked
    /\ observe = FALSE
    /\ initial = NoSprint
    /\ trajectory = << >>
    /\ retry_count = EmptyMap
    /\ iteration = 0
    /\ pc = "none"
    /\ result = "none"
    /\ saved = None
    /\ save_calls = 0
    /\ last = NoEntry
    /\ executions = EmptyMap
    /\ since_recovery = EmptyMap
    /\ resolver_runs = 0
    /\ log = << >>

ParserInit ==
    /\ parse_input \in Outputs
    /\ parse_result = None
    /\ CmdIdle
    /\ RunIdle
    /\ StartIdle

\* parse_test_results(&result.output)
ParseTestResults ==
    /\ parse_result = None
    /\ parse_result' = Some([ parser |-> "test",
                              passed |-> parse_test_results(parse_input) ])
    /\ UNCHANGED << parse_input, runvars, startvars, cmdvars >>

\* parse_review_results(&result.output)
ParseReviewResults ==
    /\ parse_result = None
    /\ parse_result' = Some([ parser |-> "review",
                              passed |-> parse_review_results(parse_input) ])
    /\ UNCHANGED << parse_input, runvars, startvars, cmdvars >>

ParserNext == ParseTestResults \/ ParseReviewResults

\* The two parsers applied to every captured output of the bound.
ParserSpec == ParserInit /\ [][ParserNext]_vars

(* ------------------------------------------------------------------ *)
(* execute_phase on its own                                           *)
(* ------------------------------------------------------------------ *)

\* What execute_agent can hand back to execute_phase for the sprint, with any
\* captured output; the placeholder when the phase invokes no agent.
PhaseResults(s) ==
    IF phase_agent(s) \in { "missing", "none" } THEN { NoAgentRun }
    ELSE { AgentErr } \cup { AgentResult(success, o) : success \in BOOLEAN, o \in Outputs }

\* Any sprint, before its phase is executed.
PhaseInit == Init /\ ~save_callback /\ ~project_path

\* One call of execute_phase(sprint).
ExecutePhase ==
    /\ pc = "idle" /\ last = NoEntry
    /\ \E r \in PhaseResults(sprint) :
          last' = LogEntry(sprint, phase_agent(sprint), r, execute_phase(sprint, r))
    /\ UNCHANGED << sprint, retry_count, iteration, pc, result, save_callback,
                    enable_auto_commit, project_path, commit, archive, saved,
                    save_calls, executions, since_recovery, resolver_runs, observe,
                    initial, trajectory, log, startvars, parservars, cmdvars >>

\* execute_phase applied to every sprint and every agent result of the bound.
PhaseSpec == PhaseInit /\ [][ExecutePhase]_vars

(* ------------------------------------------------------------------ *)
(* autoflow-agents/src/executor.rs: execute_agent and its child       *)
(* ------------------------------------------------------------------ *)

\* What an OS pipe holds before a write to it blocks, in units (a unit is a
\* chunk of the prompt on stdin, a line on stdout and stderr).
PipeCapacity == 1

\* The units of the prompt.
MaxPrompt == 2

\* The units the child writes to one of its output streams.
MaxChildOutput == 2

\* execute_agent is called: nothing is loaded or spawned yet.
\* pc: where the supervisor is; child: "none", "reading" (its stdin, up to
\* end of file), "writing" (its two output streams) or "exited"; the three
\* *_buf: units in the pipes; stdin_open: the supervisor holds the write end;
\* ret: "Err" or "Ok" (an AgentResult with success and error); failure:
\* history, what went wrong.
AgentCall(prompt) ==
    [ pc |-> "start", prompt_left |-> prompt, stdin_buf |-> 0, stdin_open |-> FALSE,
      stdout_buf |-> 0, stderr_buf |-> 0, child |-> "none", out_left |-> 0,
      err_left |-> 0, exit_ok |-> FALSE, spawned |-> FALSE, awaited |-> FALSE,
      ret |-> "none", success |-> FALSE, error |-> FALSE, failure |-> "none" ]

\* A `?` on an Err: execute_agent returns the error; the Child and the pipe
\* ends it holds are dropped (the write end of stdin closes).
return_err(a, why) ==
    [ a EXCEPT !.pc = "returned", !.ret = "Err", !.failure = why, !.stdin_open = FALSE ]

ExecInit ==
    /\ agent_run \in { AgentCall(prompt) : prompt \in 1..MaxPrompt }
    /\ rollback = [ pc |-> "none" ]
    /\ RunIdle
    /\ StartIdle
    /\ ParserIdle

\* load_agent_def(..)?, then Command::new("claude")...spawn()?: the child
\* is started with what it is going to write and how it is going to exit.
StartAgent ==
    /\ agent_run.pc = "start"
    /\ \/ agent_run' = return_err(agent_run, "load")
       \/ agent_run' = return_err(agent_run, "spawn")
       \/ \E o \in 0..MaxChildOutput, e \in 0..MaxChildOutput, ok \in BOOLEAN :
             agent_run' = [ agent_run EXCEPT !.pc = "write_stdin", !.child = "reading",
                                            !.spawned = TRUE, !.stdin_open = TRUE,
                                            !.out_left = o, !.err_left = e,
                                            !.exit_ok = ok ]
    /\ UNCHANGED << rollback, runvars, startvars, parservars >>

\* stdin.write_all(full_prompt).await?: one unit goes into the pipe when it
\* has room, or the write fails; then stdin.shutdown().await?, and stdin is
\* dropped.
WritePrompt ==
    /\ agent_run.pc = "write_stdin"
    /\ IF agent_run.prompt_left > 0
       THEN \/ /\ agent_run.stdin_buf < PipeCapacity
               /\ agent_run' = [ agent_run EXCEPT !.prompt_left = @ - 1,
                                                  !.stdin_buf = @ + 1 ]
            \/ agent_run' = return_err(agent_run, "io")
       ELSE \/ agent_run' = [ agent_run EXCEPT !.pc = "read_stdout",
                                               !.stdin_open = FALSE ]
            \/ agent_run' = return_err(agent_run, "io")
    /\ UNCHANGED << rollback, runvars, startvars, parservars >>

\* while let Some(line) = stdout_reader.next_line().await?: a line is taken
\* from the pipe, or reading it fails, or the pipe is empty and the child has
\* closed it (end of file: the loop ends).  With the pipe empty and the child
\* alive the read waits.
ReadStdout ==
    /\ agent_run.pc = "read_stdout"
    /\ \/ /\ agent_run.stdout_buf > 0
          /\ \/ agent_run' = [ agent_run EXCEPT !.stdout_buf = @ - 1 ]
             \/ agent_run' = return_err(agent_run, "io")
       \/ /\ agent_run.stdout_buf = 0 /\ agent_run.child = "exited"
          /\ agent_run' = [ agent_run EXCEPT !.pc = "read_stderr" ]
    /\ UNCHANGED << rollback, runvars, startvars, parservars >>

\* while let Some(line) = stderr_reader.next_line().await?: the same on
\* stderr, entered only after the stdout loop has ended.
ReadStderr ==
    /\ agent_run.pc = "read_stderr"
    /\ \/ /\ agent_run.stderr_buf > 0
          /\ \/ agent_run' = [ agent_run EXCEPT !.stderr_buf = @ - 1 ]
             \/ agent_run' = return_err(agent_run, "io")
       \/ /\ agent_run.stderr_buf = 0 /\ agent_run.child = "exited"
          /\ agent_run' = [ agent_run EXCEPT !.pc = "wait" ]
    /\ UNCHANGED << rollback, runvars, startvars, parservars >>

\* child.wait().await?, then Ok(AgentResult { success: status.success(),
\* error: None on success, Some(..) otherwise }).
WaitChild ==
    /\ agent_run.pc = "wait" /\ agent_run.child = "exited"
    /\ \/ agent_run' = [ agent_run EXCEPT !.pc = "returned", !.awaited = TRUE,
                                           !.ret = "Ok", !.success = agent_run.exit_ok,
                                           !.error = ~agent_run.exit_ok,
                                           !.failure = IF agent_run.exit_ok
                                                       THEN "none" ELSE "exit" ]
       \/ agent_run' = [ return_err(agent_run, "wait") EXCEPT !.awaited = TRUE ]
    /\ UNCHANGED << rollback, runvars, startvars, parservars >>

\* The child reads its stdin: a unit, or the end of file once the pipe is
\* empty and its write end closed.
ChildRead ==
    /\ agent_run.child = "reading"
    /\ \/ /\ agent_run.stdin_buf > 0
          /\ agent_run' = [ agent_run EXCEPT !.stdin_buf = @ - 1 ]
       \/ /\ agent_run.stdin_buf = 0 /\ ~agent_run.stdin_open
          /\ agent_run' = [ agent_run EXCEPT !.child = "writing" ]
    /\ UNCHANGED << rollback, runvars, startvars, parservars >>

\* The child writes a line to stdout or to stderr, in any order, when the
\* pipe has room; a write to a full pipe waits.
ChildWrite ==
    /\ agent_run.child = "writing"
    /\ \/ /\ agent_run.out_left > 0 /\ agent_run.stdout_buf < PipeCapacity
          /\ agent_run' = [ agent_run EXCEPT !.out_left = @ - 1, !.stdout_buf = @ + 1 ]
       \/ /\ agent_run.err_left > 0 /\ agent_run.stderr_buf < PipeCapacity
          /\ agent_run' = [ agent_run EXCEPT !.err_left = @ - 1, !.stderr_buf = @ + 1 ]
    /\ UNCHANGED << rollback, runvars, startvars, parservars >>

\* The child has written everything and exits; its ends of the pipes close.
ChildExit ==
    /\ agent_run.child = "writing"
    /\ agent_run.out_left = 0 /\ agent_run.err_left = 0
    /\ agent_run' = [ agent_run EXCEPT !.child = "exited" ]
    /\ UNCHANGED << rollback, runvars, startvars, parservars >>

ExecNext ==
    \/ StartAgent
    \/ WritePrompt
    \/ ReadStdout
    \/ ReadStderr
    \/ WaitChild
    \/ ChildRead
    \/ ChildWrite
    \/ ChildExit

\* One call of execute_agent and the child it spawns.
ExecSpec == ExecInit /\ [][ExecNext]_vars

(* ------------------------------------------------------------------ *)
(* The start command (commands/start.rs, run)                         *)
(* ------------------------------------------------------------------ *)

\* max_iterations of the orchestrator the command builds, bounded.
SchedulerMaxIterations == 4

\* The hand-overs to run_sprint followed in one session.
MaxRuns == 2

\* A sprint of the backlog file.
BacklogSprint(id, status, must_complete_first, dependencies) ==
    [ id |-> id, must_complete_first |-> must_complete_first,
      dependencies |-> dependencies, status |-> status,
      workflow_type |-> Documentation,
      started |-> (status # Pending), completed_at |-> (status = Done),
      blocked_count |-> IF status = Blocked THEN Some(3) ELSE None,
      uses_blocker_resolver |-> FALSE ]

\* The dependencies of sprints 1, 2, 3: none, a chain (sprint 1 naming "01",
\* which is the decimal string of no id), or sprints 2 and 3 both waiting
\* for sprint 1.
DependencyPatterns ==
    { << {}, {}, {} >>, << {"01"}, {"1"}, {"2"} >>, << {}, {"1"}, {"1"} >> }

\* The backlogs the command is started on: three sprints, at most one of the
\* first two critical.
Backlogs ==
    { << BacklogSprint(1, s1, critical = 1, deps[1]),
         BacklogSprint(2, s2, critical = 2, deps[2]),
         BacklogSprint(3, s3, FALSE, deps[3]) >> :
        s1 \in { Pending, Blocked, Done }, s2 \in { Pending, Blocked, Done },
        s3 \in { Pending, Done }, critical \in 0..2, deps \in DependencyPatterns }

\* The command lines: (--sprint, --parallel).
CommandLines ==
    { << None, FALSE >>, << None, TRUE >>, << Some(2), FALSE >>, << Some(0), FALSE >> }

StartCommon ==
    /\ sprints_data \in Backlogs
    /\ file = sprints_data
    /\ backlog = sprints_data
    /\ \E cl \in CommandLines : sprint_arg = cl[1] /\ parallel = cl[2]
    \* a fan-out of at most two sprints
    /\ parallel => sprints_data[3].status = Done
    /\ spc = "select"
    /\ selected = << >>
    /\ queue = << >>
    /\ has_callback = FALSE
    /\ tasks = << >>
    /\ runs = 0
    /\ handover = NoHandover
    /\ doc_saves = 0
    /\ callback_arg = None
    \* run_sprint on its own is not running
    /\ ParserIdle
    /\ CmdIdle
    /\ sprint = NoSprint
    /\ save_callback = FALSE
    /\ project_path = FALSE
    /\ enable_auto_commit = FALSE
    /\ commit = NoCommit
    /\ archive = Untracked
    /\ initial = NoSprint
    /\ trajectory = << >>
    /\ retry_count = EmptyMap
    /\ iteration = 0
    /\ pc = "none"
    /\ result = "none"
    /\ saved = None
    /\ save_calls = 0
    /\ last = NoEntry
    /\ executions = EmptyMap
    /\ since_recovery = EmptyMap
    /\ resolver_runs = 0
    /\ log = << >>

\* The command is started; the full history is off.
StartInit == StartCommon /\ observe = FALSE

\* The command is started; the full history is recorded.
StartInitTrace == StartCommon /\ observe = TRUE

\* One run_sprint call: the sprint it works on (at position idx of the
\* document) and its locals.
NewTask(idx, s) ==
    [ idx |-> idx, sprint |-> s, retry_count |-> EmptyMap, iteration |-> 0,
      pc |-> "idle", result |-> "none" ]

\* while !sprint.is_done() && iteration < self.max_iterations
TaskGuard(t) == ~is_done(t.sprint) /\ t.iteration < SchedulerMaxIterations

\* What one call of the save callback can do: the file is written, the load
\* fails (logged, Ok), or the write fails (Err).
CallbackOutcomes == { "written", "load_failed", "write_failed" }

\* The run_sprint calls in progress belong to one of these places.
RunningPlaces == { "parallel", "batch_run", "continuous_run" }

\* Mutant: run_sprint calls the save callback whatever the orchestrator holds.
SaveOutcomesAlways == CallbackOutcomes

\* The outcomes of the save callback at a point where run_sprint saves.
SaveOutcomes == IF has_callback THEN CallbackOutcomes ELSE { "none" }

\* The decisions execute_phase can return for the sprint.
PhaseDecisions(s) == { execute_phase(s, r) : r \in PhaseOutcomes(s) }

\* Task k goes on as t2; cb is what the save callback did ("none": not called).
\* In sequential mode run_sprint works on the sprint of the document in place;
\* in parallel mode on a clone.
TaskCommit(k, t2, cb) ==
    /\ tasks' = [ tasks EXCEPT ![k] =
                    IF cb = "write_failed"
                    THEN [ t2 EXCEPT !.pc = "returned", !.result = "SaveFailed" ]
                    ELSE t2 ]
    /\ sprints_data' = IF spc = "parallel" THEN sprints_data
                       ELSE [ sprints_data EXCEPT ![t2.idx] = t2.sprint ]
    /\ file' = IF cb = "written" THEN merge_by_id(file, t2.sprint) ELSE file
    /\ callback_arg' = IF cb = "none" THEN callback_arg ELSE Some(t2.sprint)
    /\ UNCHANGED << backlog, sprint_arg, parallel, spc, selected, queue, has_callback,
                    runs, handover, doc_saves, runvars, parservars, cmdvars >>

\* run_sprint entry of task k.
TaskStart(k) ==
    /\ spc \in RunningPlaces /\ k \in 1..Len(tasks)
    /\ tasks[k].pc = "idle"
    /\ TaskCommit(k, [ tasks[k] EXCEPT !.pc = "loop", !.sprint.started = TRUE ], "none")

\* An iteration of task k that finds the sprint BLOCKED; the resolver succeeds.
TaskBlockerResolved(k) ==
    /\ spc \in RunningPlaces /\ k \in 1..Len(tasks)
    /\ tasks[k].pc = "loop" /\ TaskGuard(tasks[k])
    /\ tasks[k].sprint.status = Blocked
    /\ \E r \in AgentOutcomes(Blocked), cb \in SaveOutcomes :
        /\ run_blocker_resolver(r)
        /\ TaskCommit(k, [ tasks[k] EXCEPT !.iteration = @ + 1,
                                           !.sprint = after_recovery(@) ], cb)

\* An iteration of task k that finds the sprint BLOCKED; the resolver fails.
TaskBlockerFailed(k) ==
    /\ spc \in RunningPlaces /\ k \in 1..Len(tasks)
    /\ tasks[k].pc = "loop" /\ TaskGuard(tasks[k])
    /\ tasks[k].sprint.status = Blocked
    /\ \E r \in AgentOutcomes(Blocked) :
        /\ ~run_blocker_resolver(r)
        /\ TaskCommit(k, [ tasks[k] EXCEPT !.iteration = @ + 1, !.pc = "returned",
                                           !.result = "SprintBlocked" ], "none")

\* The task after an iteration whose phase returned decision d.
task_after_phase(t, d) ==
    LET current_status == t.sprint.status
        counts == IF d = Advance THEN reset_retry(t.retry_count, current_status)
                  ELSE bump_retry(t.retry_count, current_status)
        count == Count(counts, current_status)
    IN  [ t EXCEPT !.iteration = @ + 1,
                   !.retry_count = counts,
                   !.sprint = IF d = Advance THEN after_advance(@)
                              ELSE IF d = Retry THEN after_retry(@, count)
                              ELSE after_error(@, count) ]

\* An iteration of task k that executes the phase of the sprint's status.
TaskPhase(k) ==
    /\ spc \in RunningPlaces /\ k \in 1..Len(tasks)
    /\ tasks[k].pc = "loop" /\ TaskGuard(tasks[k])
    /\ tasks[k].sprint.status # Blocked
    /\ \E d \in PhaseDecisions(tasks[k].sprint), cb \in SaveOutcomes :
        TaskCommit(k, task_after_phase(tasks[k], d), cb)

\* The loop of task k ends: MaxIterationsExceeded, or completed_at and Ok(()).
TaskReturn(k) ==
    /\ spc \in RunningPlaces /\ k \in 1..Len(tasks)
    /\ tasks[k].pc = "loop" /\ ~TaskGuard(tasks[k])
    /\ TaskCommit(k,
          IF tasks[k].iteration >= SchedulerMaxIterations /\ ~is_done(tasks[k].sprint)
          THEN [ tasks[k] EXCEPT !.pc = "returned", !.result = "MaxIterationsExceeded" ]
          ELSE [ tasks[k] EXCEPT !.pc = "returned", !.result = "Ok",
                                 !.sprint = complete(@) ],
          "none")

\* The elements of a sequence.
Range(seq) == { seq[i] : i \in 1..Len(seq) }

\* How the positions of sprint_indices were selected: --sprint, the BLOCKED
\* critical sprint, or the runnable filter.
selection_mode(sprints, arg) ==
    IF arg # None THEN "explicit"
    ELSE IF blocked_critical_sprint(sprints) # None THEN "preempt"
    ELSE "runnable"

\* The history after position idx is handed to run_sprint.
HandOver(selection, idx, mode) ==
    [ selection |-> selection, idx |-> idx, mode |-> mode, result |-> "running",
      handed |-> IF observe THEN sprints_data[idx] ELSE NoSprint,
      prev_idx |-> handover.idx, prev_result |-> handover.result ]

\* --sprint names no sprint: the command fails before anything runs.
SelectFails ==
    /\ spc = "select"
    /\ sprint_indices(sprints_data, sprint_arg) = None
    /\ spc' = "failed"
    /\ UNCHANGED << sprints_data, file, backlog, sprint_arg, parallel, selected, queue,
                    has_callback, tasks, runs, handover, doc_saves, callback_arg,
                    runvars, parservars, cmdvars >>

\* Parallel mode: an orchestrator without save callback; every selected sprint
\* is cloned and all run_sprint calls are started together (run_parallel).
StartParallel ==
    /\ spc = "select"
    /\ sprint_indices(sprints_data, sprint_arg) # None
    /\ LET idxs == sprint_indices(sprints_data, sprint_arg)[1] IN
        /\ parallel /\ Len(idxs) > 1
        /\ runs + Len(idxs) <= MaxRuns
        /\ selected' = idxs
        /\ has_callback' = FALSE
        /\ tasks' = [ k \in 1..Len(idxs) |-> NewTask(idxs[k], sprints_data[idxs[k]]) ]
        /\ runs' = runs + Len(idxs)
        /\ handover' = HandOver(selection_mode(sprints_data, sprint_arg),
                                idxs[Len(idxs)], "parallel")
        /\ spc' = "parallel"
    /\ UNCHANGED << sprints_data, file, backlog, sprint_arg, parallel, queue, doc_saves,
                    callback_arg, runvars, parservars, cmdvars >>

\* Sequential mode with a non-empty selection: the orchestrator gets the save
\* callback, the selection is sorted by priority.
StartBatch ==
    /\ spc = "select"
    /\ sprint_indices(sprints_data, sprint_arg) # None
    /\ LET idxs == sprint_indices(sprints_data, sprint_arg)[1] IN
        /\ ~(parallel /\ Len(idxs) > 1)
        /\ Len(idxs) > 0
        /\ selected' = idxs
        /\ queue' = sort_by_key(sprints_data, Range(idxs))
    /\ has_callback' = TRUE
    /\ handover' = [ handover EXCEPT !.selection = selection_mode(sprints_data, sprint_arg) ]
    /\ spc' = "batch"
    /\ UNCHANGED << sprints_data, file, backlog, sprint_arg, parallel, tasks, runs,
                    doc_saves, callback_arg, runvars, parservars, cmdvars >>

\* Sequential mode with an empty selection: straight to the continuous loop.
StartContinuous ==
    /\ spc = "select"
    /\ sprint_indices(sprints_data, sprint_arg) = Some(<< >>)
    /\ selected' = << >>
    /\ has_callback' = TRUE
    /\ handover' = [ handover EXCEPT !.selection = selection_mode(sprints_data, sprint_arg) ]
    /\ spc' = "continuous"
    /\ UNCHANGED << sprints_data, file, backlog, sprint_arg, parallel, queue, tasks, runs,
                    doc_saves, callback_arg, runvars, parservars, cmdvars >>

\* for idx in indices_to_run: the next sprint of the batch goes to run_sprint.
BatchHandOver ==
    /\ spc = "batch" /\ queue # << >>
    /\ runs < MaxRuns
    /\ tasks' = << NewTask(Head(queue), sprints_data[Head(queue)]) >>
    /\ queue' = Tail(queue)
    /\ runs' = runs + 1
    /\ handover' = HandOver(handover.selection, Head(queue), "batch")
    /\ spc' = "batch_run"
    /\ UNCHANGED << sprints_data, file, backlog, sprint_arg, parallel, selected,
                    has_callback, doc_saves, callback_arg, runvars, parservars, cmdvars >>

\* run_sprint returned an error.
IsErr(returned) == returned # "Ok"

\* After a sprint of the batch: the document is saved; after the last one the
\* command returns (--sprint) or goes on to the continuous loop.
BatchAfterRun ==
    /\ spc = "batch_run" /\ tasks[1].pc = "returned"
    /\ \E ok \in BOOLEAN :
        /\ file' = IF ok THEN sprints_data ELSE file
        /\ doc_saves' = IF ok THEN doc_saves + 1 ELSE doc_saves
        /\ spc' = IF ~ok THEN "failed"
                  ELSE IF queue # << >> THEN "batch"
                  ELSE IF sprint_arg = None THEN "continuous"
                  ELSE "done"
    /\ handover' = [ handover EXCEPT !.result = tasks[1].result ]
    /\ tasks' = << >>
    /\ UNCHANGED << sprints_data, backlog, sprint_arg, parallel, selected, queue,
                    has_callback, runs, callback_arg, runvars, parservars, cmdvars >>

\* The continuous loop: the runnable sprint of highest priority goes to run_sprint.
ContinuousHandOver ==
    /\ spc = "continuous"
    /\ runnable_continuous(sprints_data) # {}
    /\ runs < MaxRuns
    /\ LET idx == select_next(sprints_data, runnable_continuous(sprints_data)) IN
        /\ tasks' = << NewTask(idx, sprints_data[idx]) >>
        /\ handover' = HandOver(handover.selection, idx, "continuous")
    /\ runs' = runs + 1
    /\ spc' = "continuous_run"
    /\ UNCHANGED << sprints_data, file, backlog, sprint_arg, parallel, selected, queue,
                    has_callback, doc_saves, callback_arg, runvars, parservars, cmdvars >>

\* The continuous loop: no runnable sprint is left.
ContinuousDone ==
    /\ spc = "continuous"
    /\ runnable_continuous(sprints_data) = {}
    /\ spc' = "final_save"
    /\ UNCHANGED << sprints_data, file, backlog, sprint_arg, parallel, selected, queue,
                    has_callback, tasks, runs, handover, doc_saves, callback_arg,
                    runvars, parservars, cmdvars >>

\* Mutant: the continuous loop goes on after every failure.
stops_never(returned, s) == FALSE

\* Err(e) with sprint.status == SprintStatus::Blocked: "stopping execution".
stops_execution(returned, s) == IsErr(returned) /\ s.status = Blocked

\* The continuous loop: run_sprint failed and left the sprint BLOCKED: break.
ContinuousBreak ==
    /\ spc = "continuous_run" /\ tasks[1].pc = "returned"
    /\ stops_execution(tasks[1].result, tasks[1].sprint)
    /\ spc' = "final_save"
    /\ handover' = [ handover EXCEPT !.result = tasks[1].result ]
    /\ tasks' = << >>
    /\ UNCHANGED << sprints_data, file, backlog, sprint_arg, parallel, selected, queue,
                    has_callback, runs, doc_saves, callback_arg, runvars, parservars, cmdvars >>

\* The continuous loop: after any other run the document is saved and the
\* runnable set is evaluated again.
ContinuousAfterRun ==
    /\ spc = "continuous_run" /\ tasks[1].pc = "returned"
    /\ ~stops_execution(tasks[1].result, tasks[1].sprint)
    /\ \E ok \in BOOLEAN :
        /\ file' = IF ok THEN sprints_data ELSE file
        /\ doc_saves' = IF ok THEN doc_saves + 1 ELSE doc_saves
        /\ spc' = IF ok THEN "continuous" ELSE "failed"
    /\ handover' = [ handover EXCEPT !.result = tasks[1].result ]
    /\ tasks' = << >>
    /\ UNCHANGED << sprints_data, backlog, sprint_arg, parallel, selected, queue,
                    has_callback, runs, callback_arg, runvars, parservars, cmdvars >>

\* Mutant: the results are written back in the reverse order.
write_back_swapped(sprints, idxs, sprints_to_run) ==
    [ i \in 1..Len(sprints) |->
        IF \E k \in 1..Len(idxs) : idxs[k] = i
        THEN sprints_to_run[Len(idxs) + 1 - (CHOOSE k \in 1..Len(idxs) : idxs[k] = i)].sprint
        ELSE sprints[i] ]

\* for (i, &idx) in sprint_indices.iter().enumerate():
\*     sprints_data.sprints[idx] = sprints_to_run[i].clone()
write_back(sprints, idxs, sprints_to_run) ==
    [ i \in 1..Len(sprints) |->
        IF \E k \in 1..Len(idxs) : idxs[k] = i
        THEN sprints_to_run[CHOOSE k \in 1..Len(idxs) : idxs[k] = i].sprint
        ELSE sprints[i] ]

\* Parallel mode: all run_sprint calls have returned (join_all); the clones
\* are written back to the document by position.
ParallelJoin ==
    /\ spc = "parallel"
    /\ \A k \in 1..Len(tasks) : tasks[k].pc = "returned"
    /\ sprints_data' = write_back(sprints_data, selected, tasks)
    /\ spc' = "parallel_save"
    /\ UNCHANGED << file, backlog, sprint_arg, parallel, selected, queue, has_callback,
                    tasks, runs, handover, doc_saves, callback_arg, runvars, parservars, cmdvars >>

\* Parallel mode: the save after the fan-out.
ParallelSave ==
    /\ spc = "parallel_save"
    /\ \E ok \in BOOLEAN :
        /\ file' = IF ok THEN sprints_data ELSE file
        /\ doc_saves' = IF ok THEN doc_saves + 1 ELSE doc_saves
        /\ spc' = IF ok THEN "final_save" ELSE "failed"
    /\ UNCHANGED << sprints_data, backlog, sprint_arg, parallel, selected, queue,
                    has_callback, tasks, runs, handover, callback_arg, runvars, parservars, cmdvars >>

\* "Save updated sprints": the save before the summary.
FinalSave ==
    /\ spc = "final_save"
    /\ \E ok \in BOOLEAN :
        /\ file' = IF ok THEN sprints_data ELSE file
        /\ doc_saves' = IF ok THEN doc_saves + 1 ELSE doc_saves
        /\ spc' = IF ok THEN "done" ELSE "failed"
    /\ UNCHANGED << sprints_data, backlog, sprint_arg, parallel, selected, queue,
                    has_callback, tasks, runs, handover, callback_arg, runvars, parservars, cmdvars >>

\* The exit code of the process: main returns what run returned, Ok(()) for
\* a command that ran to its end and the error otherwise; the runtime turns
\* them into 0 and 1.
exit_code(place) == IF place = "done" THEN 0 ELSE 1

StartNext ==
    \/ SelectFails
    \/ StartParallel
    \/ StartBatch
    \/ StartContinuous
    \/ BatchHandOver
    \/ BatchAfterRun
    \/ ContinuousHandOver
    \/ ContinuousDone
    \/ ContinuousBreak
    \/ ContinuousAfterRun
    \/ ParallelJoin
    \/ ParallelSave
    \/ FinalSave
    \/ \E k \in 1..Len(tasks) :
          \/ TaskStart(k)
          \/ TaskBlockerResolved(k)
          \/ TaskBlockerFailed(k)
          \/ TaskPhase(k)
          \/ TaskReturn(k)

\* The start command on a backlog of three sprints.
StartSpec == StartInit /\ [][StartNext]_vars

\* The same command with the sprint of each hand-over recorded.
StartTraceSpec == StartInitTrace /\ [][StartNext]_vars

(* ------------------------------------------------------------------ *)
(* Helpers of the scenario claims (over the recorded history)         *)
(* ------------------------------------------------------------------ *)

FixStatuses == { ReviewFix, UnitFix, E2eFix }

TestStatuses == { RunUnitTests, RunE2eTests }

\* The agent run of a log entry succeeded (or the phase runs no agent).
RunSucceeded(e) ==
    e.agent = "none" \/ (e.outcome.kind = "result" /\ e.outcome.success)

\* ... and, where a verdict is parsed, its output is the PASSED marker.
RunPassed(e) ==
    /\ RunSucceeded(e)
    /\ e.status \in TestStatuses => e.outcome.output = << TEST_PASSED >>
    /\ e.status = CodeReview => e.outcome.output = << REVIEW_PASSED >>

\* A test run that succeeded and reported TEST_RESULT: FAILED.
TestReportedFailed(e) ==
    /\ e.outcome.kind = "result" /\ e.outcome.success
    /\ e.outcome.output = << TEST_FAILED >>

IsReview(e) == e.status = CodeReview

IsPrefix(a, b) == Len(a) <= Len(b) /\ \A i \in 1..Len(a) : a[i] = b[i]

Suffix(a, n) == SubSeq(a, Len(a) - n + 1, Len(a))

Occurs(x, a) == \E i \in 1..Len(a) : a[i] = x

(* ------------------------------------------------------------------ *)
(* C1                                                                 *)
(* ------------------------------------------------------------------ *)

HappyPath ==
    << Pending, WriteUnitTests, WriteCode, CodeReview, RunUnitTests,
       WriteE2eTests, RunE2eTests, Complete, Done >>

\* The scenario of C1: a fresh PENDING IMPLEMENTATION sprint, every agent run
\* so far succeeded with the PASSED marker, and no save-callback call failed.
C1_Scenario ==
    /\ observe
    /\ initial.workflow_type = Implementation
    /\ initial.status = Pending
    /\ \A i \in 1..Len(log) : RunPassed(log[i])
    /\ result # "SaveFailed"

\* C1: for an IMPLEMENTATION sprint that starts PENDING, when every agent
\* invocation succeeds, test runners emit TEST_RESULT: PASSED and the reviewer
\* emits REVIEW_STATUS: PASSED, the status goes through exactly PENDING,
\* WRITE_UNIT_TESTS, WRITE_CODE, CODE_REVIEW, RUN_UNIT_TESTS, WRITE_E2E_TESTS,
\* RUN_E2E_TESTS, COMPLETE, DONE: all along the trajectory is a prefix of that
\* path (no fix phase, never BLOCKED), and on return it is the whole path, the
\* result is Ok and completed_at is set.
C1_HappyPath ==
    C1_Scenario =>
        /\ IsPrefix(trajectory, HappyPath)
        /\ pc = "returned" =>
              /\ trajectory = HappyPath
              /\ result = "Ok"
              /\ sprint.status = Done
              /\ sprint.completed_at

C1_Witness ==
    /\ C1_Scenario
    /\ pc = "returned"
    /\ result = "Ok"
    /\ trajectory = HappyPath
    /\ Len(log) = 8

(* ------------------------------------------------------------------ *)
(* C2                                                                 *)
(* ------------------------------------------------------------------ *)

\* The scenario of C2: an IMPLEMENTATION sprint handed over at RUN_UNIT_TESTS
\* that has not used the blocker-resolver; so far every unit-test run reported
\* TEST_RESULT: FAILED and every unit-fixer run succeeded; the sprint is now
\* BLOCKED.
C2_Scenario ==
    /\ observe
    /\ initial.workflow_type = Implementation
    /\ initial.status = RunUnitTests
    /\ ~initial.uses_blocker_resolver
    /\ \A i \in 1..Len(log) :
          \/ log[i].status = RunUnitTests /\ TestReportedFailed(log[i])
          \/ log[i].status = UnitFix /\ RunSucceeded(log[i])
    /\ sprint.status = Blocked

\* C2 as claimed: BLOCKED on the fourth failed test run, after three visits to
\* UNIT_FIX, with blocked_count = 3.
C2_Original ==
    C2_Scenario =>
        /\ trajectory = << RunUnitTests, UnitFix, RunUnitTests, UnitFix,
                           RunUnitTests, UnitFix, RunUnitTests, Blocked >>
        /\ sprint.blocked_count = Some(3)

\* C2 (amended): with max_retries = 3 the sprint becomes BLOCKED on the third
\* failed test run, after two visits to UNIT_FIX: the trajectory is
\* RUN_UNIT_TESTS, UNIT_FIX, RUN_UNIT_TESTS, UNIT_FIX, RUN_UNIT_TESTS, BLOCKED,
\* with blocked_count = 3.
C2_BlockedOnThirdFailure ==
    C2_Scenario =>
        /\ trajectory = << RunUnitTests, UnitFix, RunUnitTests, UnitFix,
                           RunUnitTests, Blocked >>
        /\ sprint.blocked_count = Some(3)
        /\ Len(log) = 5

C2_Witness ==
    /\ C2_Scenario
    /\ Len(SelectSeq(log, LAMBDA e : e.status = UnitFix)) = 2
    /\ sprint.blocked_count = Some(3)

(* ------------------------------------------------------------------ *)
(* C3                                                                 *)
(* ------------------------------------------------------------------ *)

\* The scenario of C3: a fresh IMPLEMENTATION sprint; every agent run so far
\* succeeded; the reviewer has just run for the third time, and its verdicts
\* were FAILED, FAILED, PASSED; no save-callback call failed.
C3_Scenario ==
    /\ observe
    /\ initial.workflow_type = Implementation
    /\ initial.status = Pending
    /\ initial.blocked_count = None
    /\ \A i \in 1..Len(log) : RunSucceeded(log[i])
    /\ LET reviews == SelectSeq(log, IsReview) IN
          /\ Len(reviews) = 3
          /\ reviews[1].outcome.output = << REVIEW_FAILED >>
          /\ reviews[2].outcome.output = << REVIEW_FAILED >>
          /\ reviews[3].outcome.output = << REVIEW_PASSED >>
    /\ IsReview(log[Len(log)])

\* C3: when the reviewer emits REVIEW_STATUS: FAILED twice and then PASSED (the
\* review-fixer succeeding each time), the trajectory ends CODE_REVIEW,
\* REVIEW_FIX, CODE_REVIEW, REVIEW_FIX, CODE_REVIEW, RUN_UNIT_TESTS, the sprint
\* was never BLOCKED on the way and blocked_count is not set.
C3_ReviewLoop ==
    C3_Scenario =>
        /\ Len(trajectory) >= 6
        /\ Suffix(trajectory, 6) = << CodeReview, ReviewFix, CodeReview,
                                      ReviewFix, CodeReview, RunUnitTests >>
        /\ ~Occurs(Blocked, trajectory)
        /\ sprint.status = RunUnitTests
        /\ sprint.blocked_count = None

C3_Witness ==
    /\ C3_Scenario
    /\ sprint.status = RunUnitTests
    /\ Count(retry_count, CodeReview) = 0

(* ------------------------------------------------------------------ *)
(* C4                                                                 *)
(* ------------------------------------------------------------------ *)

\* max_retries of the phase at status S in the sprint's workflow.
MaxRetriesAt(S) == max_retries_of([ sprint EXCEPT !.status = S ])

NonAdvancing == { Retry, Failed }

\* Every non-advancing outcome at S increments S's counter: the counter is the
\* number of executions of S since the last advance out of it.
C4_CounterCounts ==
    \A S \in SprintStatus : Count(retry_count, S) = Count(executions, S)

\* As soon as the counter reaches max_retries the status is BLOCKED with
\* blocked_count equal to the counter.
C4_CeilingBlocks ==
    (last.decision \in NonAdvancing
        /\ Count(retry_count, last.status) >= MaxRetriesAt(last.status))
    => /\ sprint.status = Blocked
       /\ sprint.blocked_count = Some(Count(retry_count, last.status))

\* Whenever the loop sets BLOCKED, blocked_count is set, is >= 1 and is the
\* counter of the status that failed.
C4_BlockedCount ==
    (last.decision \in NonAdvancing /\ sprint.status = Blocked)
    => /\ sprint.blocked_count # None
       /\ sprint.blocked_count[1] >= 1
       /\ sprint.blocked_count[1] = Count(retry_count, last.status)

\* C4 as claimed: ... and within one run_sprint call no status is executed
\* more than max_retries times without an intervening advance out of it.
C4_Original ==
    /\ C4_CounterCounts
    /\ C4_CeilingBlocks
    /\ C4_BlockedCount
    /\ \A S \in SprintStatus : Count(executions, S) <= MaxRetriesAt(S)

\* C4 (amended): every non-advancing outcome at status S (retry decision or
\* executor error) increments S's retry counter; as soon as the counter
\* reaches the phase's max_retries the status becomes BLOCKED with
\* blocked_count equal to the counter; whenever the loop sets BLOCKED,
\* blocked_count is set and >= 1; and no status is executed more than
\* max_retries times without an intervening advance out of it or an
\* intervening successful blocker recovery (which does not reset the counters).
C4_RetryCeiling ==
    /\ C4_CounterCounts
    /\ C4_CeilingBlocks
    /\ C4_BlockedCount
    /\ \A S \in SprintStatus : Count(since_recovery, S) <= MaxRetriesAt(S)

\* A status blocked again after a recovery, its counter above max_retries.
C4_Witness ==
    /\ last.decision \in NonAdvancing
    /\ sprint.status = Blocked
    /\ resolver_runs >= 1
    /\ last.agent # "missing"
    /\ Count(executions, last.status) > MaxRetriesAt(last.status)
    /\ sprint.blocked_count = Some(Count(retry_count, last.status))

(* ------------------------------------------------------------------ *)
(* C5                                                                 *)
(* ------------------------------------------------------------------ *)

ValidationStatuses == { CodeReview, RunUnitTests, RunE2eTests }

\* C5: once uses_blocker_resolver is true, a phase that returns a retry
\* decision (in particular a failing CODE_REVIEW, RUN_UNIT_TESTS or
\* RUN_E2E_TESTS) leaves the sprint BLOCKED, and the sprint is never in
\* REVIEW_FIX, UNIT_FIX or E2E_FIX while it carries the flag.
C5_BlockedInsteadOfFix ==
    /\ (last.decision = Retry /\ sprint.uses_blocker_resolver)
            => sprint.status = Blocked
    /\ sprint.uses_blocker_resolver => sprint.status \notin FixStatuses

\* A failing end-to-end run after a recovery, below the ceiling, with a fix
\* phase it would otherwise have gone to.
C5_Witness ==
    /\ sprint.uses_blocker_resolver
    /\ resolver_runs >= 1
    /\ last.decision = Retry
    /\ last.status = RunE2eTests
    /\ Count(retry_count, last.status) < MaxRetriesAt(last.status)
    /\ get_fix_phase(get_workflow_definition(sprint.workflow_type), last.status) # None
    /\ sprint.status = Blocked

(* ------------------------------------------------------------------ *)
(* C6                                                                 *)
(* ------------------------------------------------------------------ *)

\* C6: when the loop finds the sprint BLOCKED, the recovery succeeds exactly
\* when the blocker-resolver run completes successfully.  Right after a
\* successful recovery (before any other phase is executed)
\* uses_blocker_resolver is true, the status is RUN_UNIT_TESTS, blocked_count
\* is 0 and that sprint is what the save callback was given.  After a failed
\* recovery run_sprint has returned SprintBlocked with the status still
\* BLOCKED, so no further agent is invoked.
C6_BlockerRecovery ==
    /\ last.agent = BlockerResolver =>
          /\ last.status = Blocked
          /\ (last.decision = "recovered")
                 = (last.outcome.kind = "result" /\ last.outcome.success)
          /\ last.decision \in { "recovered", "blocked" }
    /\ last.decision = "recovered" =>
          /\ sprint.uses_blocker_resolver
          /\ sprint.status = RunUnitTests
          /\ sprint.blocked_count = Some(0)
          /\ save_callback => saved = Some(sprint)
    /\ last.decision = "blocked" =>
          /\ pc = "returned"
          /\ result = "SprintBlocked"
          /\ sprint.status = Blocked

\* A recovery of a sprint blocked at its ceiling, handed to the save callback.
C6_Witness ==
    /\ last.decision = "recovered"
    /\ save_callback
    /\ saved = Some(sprint)
    /\ sprint.blocked_count = Some(0)
    /\ \E S \in SprintStatus : Count(retry_count, S) >= 3

(* ------------------------------------------------------------------ *)
(* C7                                                                 *)
(* ------------------------------------------------------------------ *)

\* C7 as claimed: within one run_sprint call the blocker-resolver is invoked
\* at most once.
C7_Original == resolver_runs <= 1

\* C7 (amended): the blocker-resolver is invoked once in every loop iteration
\* that finds the sprint BLOCKED and in no other; it is never invoked in two
\* consecutive iterations, so within one run_sprint call it is invoked at most
\* (iterations + 1) / 2 times, and it is invoked again whenever the sprint
\* becomes BLOCKED again after a successful recovery.
C7_ResolverPerBlockedIteration ==
    [][ /\ iteration' = iteration + 1 =>
              /\ (resolver_runs' = resolver_runs + 1) = (sprint.status = Blocked)
              /\ (resolver_runs' = resolver_runs) = (sprint.status # Blocked)
              /\ last.agent = BlockerResolver => resolver_runs' = resolver_runs
        /\ iteration' # iteration + 1 => resolver_runs' = resolver_runs
        /\ 2 * resolver_runs' <= iteration' + 1 ]_vars

\* A second recovery in the same run_sprint call.
C7_Witness ==
    /\ resolver_runs >= 2
    /\ last.decision = "recovered"
    /\ sprint.status = RunUnitTests

(* ------------------------------------------------------------------ *)
(* C8                                                                 *)
(* ------------------------------------------------------------------ *)

\* The fix phases present in the workflow W.
FixPhasesOf(W) == { F \in FixStatuses : get_phase(W, F) # None }

\* The positions of the phases of W whose fix_status is F.
ValidatorsOf(W, F) == { i \in 1..Len(W) : W[i].fix_status = F }

\* In every workflow each fix phase is the fix_status of exactly one phase,
\* which is not the phase that follows the fix phase in the list.
C8_UniqueValidator ==
    \A wt \in WorkflowType :
        LET W == get_workflow_definition(wt) IN
        \A F \in FixPhasesOf(W) :
            /\ Cardinality(ValidatorsOf(W, F)) = 1
            /\ get_validation_phase_for_fix(W, F) # None
            /\ get_validation_phase_for_fix(W, F)[1].fix_status = F
            /\ next_phase(W, F) # None =>
                  next_phase(W, F)[1].status
                      # get_validation_phase_for_fix(W, F)[1].status

\* C8: for every workflow type and every fix phase F in it exactly one phase
\* has fix_status = F, and a successful execution of F moves the sprint back
\* to that validation phase, never forward to the phase that follows F.
C8_FixLoopsBack ==
    /\ C8_UniqueValidator
    /\ (last.decision = Advance /\ last.status \in FixStatuses) =>
          LET W == get_workflow_definition(sprint.workflow_type) IN
          /\ get_phase(W, sprint.status) # None
          /\ get_phase(W, sprint.status)[1].fix_status = last.status
          /\ next_phase(W, last.status) # None =>
                sprint.status # next_phase(W, last.status)[1].status

\* The unit-fixer succeeded and the sprint is back at RUN_UNIT_TESTS.
C8_Witness ==
    /\ last.decision = Advance
    /\ last.status = UnitFix
    /\ last.agent \notin { "none", "missing" }
    /\ sprint.status = RunUnitTests

(* ------------------------------------------------------------------ *)
(* C9                                                                 *)
(* ------------------------------------------------------------------ *)

\* In every workflow the forward step from a non-fix status is not a fix phase.
C9_SkipFixStatic ==
    \A wt \in WorkflowType :
        LET W == get_workflow_definition(wt) IN
        \A i \in 1..Len(W) :
            (~is_fix_phase(W, W[i].status) /\ next_phase_skip_fix(W, W[i].status) # None)
            => /\ next_phase_skip_fix(W, W[i].status)[1].status \notin FixStatuses
               /\ ~is_fix_phase(W, next_phase_skip_fix(W, W[i].status)[1].status)

\* C9: for every workflow type and every non-fix status S in it, the status
\* reached by a successful advance from S is never a fix phase; a sprint only
\* enters a fix phase from the validation phase whose fix_status it is, on a
\* retry decision of that phase.
C9_AdvanceSkipsFix ==
    [][ /\ C9_SkipFixStatic
        /\ (iteration' = iteration + 1 /\ last'.decision = Advance
                /\ sprint.status \notin FixStatuses)
            => sprint'.status \notin FixStatuses
        /\ (sprint'.status \in FixStatuses /\ sprint'.status # sprint.status)
            => /\ last'.decision = Retry
               /\ last'.status = sprint.status
               /\ sprint.status \in ValidationStatuses
               /\ get_phase(get_workflow_definition(sprint.workflow_type),
                             sprint.status)[1].fix_status = sprint'.status ]_vars

\* An advance out of a phase that is followed by a fix phase in the list.
C9_Witness ==
    LET W == get_workflow_definition(sprint.workflow_type) IN
    /\ last.decision = Advance
    /\ next_phase(W, last.status) # None
    /\ next_phase(W, last.status)[1].status \in FixStatuses
    /\ sprint.status \notin FixStatuses
    /\ sprint.status # last.status

(* ------------------------------------------------------------------ *)
(* C10                                                                *)
(* ------------------------------------------------------------------ *)

\* C10: whenever the phase at status S returns an advance decision, the retry
\* counter of S is reset to zero and the counter of every other status (in
\* particular of the validation phase paired with a fix phase S) is unchanged.
C10_AdvanceResetsOwnCounter ==
    [][ (iteration' = iteration + 1 /\ last'.decision = Advance) =>
          /\ sprint.status \in DOMAIN retry_count'
          /\ retry_count'[sprint.status] = 0
          /\ \A T \in SprintStatus \ { sprint.status } :
                /\ Count(retry_count', T) = Count(retry_count, T)
                /\ (T \in DOMAIN retry_count') = (T \in DOMAIN retry_count) ]_vars

\* The unit-fixer advanced; the counter of RUN_UNIT_TESTS still holds its failures.
C10_Witness ==
    /\ last.decision = Advance
    /\ last.status = UnitFix
    /\ UnitFix \in DOMAIN retry_count
    /\ retry_count[UnitFix] = 0
    /\ Count(retry_count, RunUnitTests) >= 2

(* ------------------------------------------------------------------ *)
(* C11                                                                *)
(* ------------------------------------------------------------------ *)

\* The status of s is BLOCKED or belongs to the phase list of its workflow.
InOwnWorkflow(s) ==
    \/ s.status = Blocked
    \/ get_phase(get_workflow_definition(s.workflow_type), s.status) # None

\* C11: the sprint handed to the save callback has a status that is BLOCKED or
\* belongs to the phase list of its own workflow_type.  (Violated: a successful
\* blocker recovery puts a DOCUMENTATION or INFRASTRUCTURE sprint at
\* RUN_UNIT_TESTS, which their phase lists do not have, and saves it.)
C11_SavedStatusInWorkflow ==
    saved # None => InOwnWorkflow(saved[1])

(* ------------------------------------------------------------------ *)
(* C12                                                                *)
(* ------------------------------------------------------------------ *)

\* status = DONE implies completed_at; status outside {PENDING, DONE} implies
\* started.
TimestampsConsistent(s) ==
    /\ s.status = Done => s.completed_at
    /\ s.status \notin { Pending, Done } => s.started

\* C12: in every save-callback call made by run_sprint, status = DONE implies
\* completed_at is set and status outside {PENDING, DONE} implies started is
\* set.  (Violated: the iteration that reaches DONE saves the sprint inside
\* the loop, and completed_at is only written after the loop.)
C12_SavedTimestamps ==
    saved # None => TimestampsConsistent(saved[1])

(* ------------------------------------------------------------------ *)
(* Helpers of the claims about the start command                      *)
(* ------------------------------------------------------------------ *)

\* The run_sprint calls that have just been handed their sprint: nothing of
\* the call has run yet, the document is as it was at the hand-over.
JustHandedOver == { k \in 1..Len(tasks) : spc \in RunningPlaces /\ tasks[k].pc = "idle" }

\* The sprint of the document that call k was handed.
Handed(k) == sprints_data[tasks[k].idx]

\* The dependencies of s that name an existing sprint.
ExistingDependencies(s) ==
    { d \in s.dependencies : find_dependency(sprints_data, d) # None }

(* ------------------------------------------------------------------ *)
(* C13                                                                *)
(* ------------------------------------------------------------------ *)

\* C13 as claimed: in every mode of the command a sprint is handed to
\* run_sprint only if each of its dependencies that names an existing sprint
\* is DONE at that moment.
C13_Original ==
    \A k \in JustHandedOver : dependencies_satisfied(sprints_data, Handed(k))

\* C13 (amended): when the selection comes from the runnable filter (initial
\* batch, parallel fan-out) and in the continuous loop, a sprint is handed to
\* run_sprint only if each of its dependencies that names an existing sprint
\* is DONE at that moment; an explicit --sprint id and the blocked-critical
\* preemption select their sprint without looking at its dependencies.
C13_DependenciesDone ==
    \A k \in JustHandedOver :
        (handover.selection = "runnable" \/ handover.mode = "continuous")
        => dependencies_satisfied(sprints_data, Handed(k))

\* The continuous loop hands over a sprint whose dependency is DONE by now,
\* after the run before it.
C13_Witness ==
    /\ handover.mode = "continuous"
    /\ handover.prev_idx # 0
    /\ to_string(sprints_data[handover.prev_idx].id)
          \in ExistingDependencies(sprints_data[handover.idx])
    /\ handover.prev_result = "Ok"
    /\ JustHandedOver # {}

(* ------------------------------------------------------------------ *)
(* C14                                                                *)
(* ------------------------------------------------------------------ *)

\* The backlog of the scenario: A = 1 DONE, B = 2 PENDING depending on A,
\* C = 3 PENDING depending on B; sequential mode without --sprint.
C14_Scenario ==
    /\ spc # "none" /\ sprint_arg = None /\ ~parallel
    /\ backlog[1].status = Done
    /\ backlog[2].status = Pending /\ backlog[2].dependencies = {"1"}
    /\ backlog[3].status = Pending /\ backlog[3].dependencies = {"2"}

\* C14: with A DONE, B PENDING depending on A and C PENDING depending on B,
\* the sequential scheduler hands B to run_sprint first, C is neither handed
\* over nor touched while B is not DONE, and once B is DONE the continuous
\* loop finds C runnable and selects it: the session does not end with B DONE
\* and C never started.
C14_BBeforeC ==
    C14_Scenario =>
        /\ (runs >= 1 /\ handover.prev_idx = 0) => handover.idx = 2
        /\ sprints_data[2].status # Done =>
              /\ sprints_data[3] = backlog[3]
              /\ \A k \in 1..Len(tasks) : tasks[k].idx # 3
        /\ (spc = "continuous" /\ sprints_data[2].status = Done
                /\ sprints_data[3].status # Done) =>
              /\ 3 \in runnable_continuous(sprints_data)
              /\ select_next(sprints_data, runnable_continuous(sprints_data)) = 3
        /\ (spc \in { "final_save", "done" } /\ sprints_data[2].status = Done) =>
              sprints_data[3].started

\* B has run to DONE and C, handed over next, is running.
C14_Witness ==
    /\ C14_Scenario
    /\ handover.idx = 3 /\ handover.prev_idx = 2 /\ handover.prev_result = "Ok"
    /\ sprints_data[2].status = Done
    /\ tasks[1].pc = "loop" /\ sprints_data[3].started

(* ------------------------------------------------------------------ *)
(* C15                                                                *)
(* ------------------------------------------------------------------ *)

\* C15: while some sprint has must_complete_first set and is not DONE, the
\* scheduler (initial batch, continuous loop, parallel fan-out) hands no
\* other sprint to run_sprint.
C15_CriticalFirst ==
    \A k \in JustHandedOver :
        (handover.selection # "explicit" /\ has_incomplete_critical(sprints_data))
        => Handed(k).must_complete_first

(* ------------------------------------------------------------------ *)
(* C16                                                                *)
(* ------------------------------------------------------------------ *)

\* The backlog of the scenario: X = 1 critical and BLOCKED, Y = 2 PENDING;
\* no --sprint.
C16_Scenario ==
    /\ spc # "none" /\ sprint_arg = None
    /\ backlog[1].must_complete_first /\ backlog[1].status = Blocked
    /\ backlog[2].status = Pending

\* C16: with X critical and BLOCKED, Y PENDING and no --sprint, the
\* selection is X alone and X is the first sprint handed to run_sprint, whose
\* first iteration runs the blocker-resolver; as long as X is not DONE, in
\* the batch and in the continuous loop after it, Y is not handed to
\* run_sprint and stays as it was loaded.
C16_CriticalBlockedFirst ==
    C16_Scenario =>
        /\ spc # "select" => (selected = << 1 >> /\ handover.selection = "preempt")
        /\ (runs >= 1 /\ handover.prev_idx = 0) => handover.idx = 1
        /\ (runs = 1 /\ tasks # << >> /\ tasks[1].iteration >= 1) =>
              \/ tasks[1].sprint.uses_blocker_resolver
              \/ tasks[1].result = "SprintBlocked"
        /\ sprints_data[1].status # Done =>
              /\ \A k \in 1..Len(tasks) : tasks[k].idx # 2
              /\ sprints_data[2] = backlog[2]

\* After the resolver recovered X in the first run, the continuous loop has
\* handed X over again, Y being runnable but for the critical sprint.
C16_Witness ==
    /\ C16_Scenario
    /\ handover.mode = "continuous" /\ handover.idx = 1 /\ handover.prev_idx = 1
    /\ sprints_data[1].uses_blocker_resolver
    /\ sprints_data[1].status # Done
    /\ 2 \in runnable_initial(sprints_data)
    /\ tasks[1].pc = "loop"

(* ------------------------------------------------------------------ *)
(* C17                                                                *)
(* ------------------------------------------------------------------ *)

\* The continuous loop has recorded that run_sprint returned SprintBlocked or
\* MaxIterationsExceeded for the sprint it handed over last.
ContinuousFailure ==
    /\ handover.mode = "continuous"
    /\ handover.result \in { "SprintBlocked", "MaxIterationsExceeded" }
    /\ spc \in { "continuous", "final_save", "done" }

\* The runnable sprints other than the one that failed.
OtherRunnable == runnable_continuous(sprints_data) \ { handover.idx }

\* C17 as claimed: after run_sprint returned SprintBlocked or
\* MaxIterationsExceeded in the continuous loop, if another sprint is
\* runnable the loop goes on and selects a sprint other than the failed one.
C17_Original ==
    (ContinuousFailure /\ OtherRunnable # {}) =>
        /\ spc = "continuous"
        /\ select_next(sprints_data, runnable_continuous(sprints_data)) # handover.idx

\* C17 (amended): after run_sprint returned SprintBlocked or
\* MaxIterationsExceeded in the continuous loop, (a) if the sprint is BLOCKED
\* the loop has stopped: no further sprint is selected, the command goes to
\* its final save; (b) if the sprint is not BLOCKED the document is saved and
\* the loop goes on, the failed sprint is still runnable and is the one
\* selected next.
C17_StopOrRerun ==
    ContinuousFailure =>
        IF sprints_data[handover.idx].status = Blocked
        THEN spc \in { "final_save", "done" }
        ELSE /\ spc = "continuous"
             /\ handover.idx \in runnable_continuous(sprints_data)
             /\ select_next(sprints_data, runnable_continuous(sprints_data)) = handover.idx

\* The loop has stopped on a sprint left BLOCKED while another sprint is
\* runnable.
C17_Witness ==
    /\ ContinuousFailure
    /\ handover.result = "SprintBlocked"
    /\ sprints_data[handover.idx].status = Blocked
    /\ OtherRunnable # {}
    /\ spc = "final_save"

(* ------------------------------------------------------------------ *)
(* C18                                                                *)
(* ------------------------------------------------------------------ *)

\* The command took the parallel branch.
ParallelMode == handover.mode = "parallel"

\* In parallel mode there is no save callback and nothing is written while a
\* task may still be running.
NoWriteDuringFanOut ==
    ParallelMode =>
        /\ ~has_callback /\ callback_arg = None
        /\ spc = "parallel" => (doc_saves = 0 /\ file = backlog)

C19_WriteBackByPosition ==
    ParallelMode =>
        /\ spc = "parallel" => sprints_data = backlog
        /\ Len(tasks) = Len(selected)
        /\ \A k \in 1..Len(tasks) :
              /\ tasks[k].idx = selected[k]
              /\ tasks[k].sprint.id = backlog[selected[k]].id
        /\ spc # "parallel" =>
              /\ \A k \in 1..Len(selected) : sprints_data[selected[k]] = tasks[k].sprint
              /\ \A i \in 1..Len(sprints_data) :
                    i \notin Range(selected) => sprints_data[i] = backlog[i]

\* Two tasks have ended in different statuses, both away from where they
\* started, and have been written back.
C19_Witness ==
    /\ ParallelMode /\ spc = "parallel_save"
    /\ Len(tasks) = 2
    /\ tasks[1].sprint.status # tasks[2].sprint.status
    /\ \A k \in 1..2 : tasks[k].sprint.status # backlog[selected[k]].status
    /\ \E i \in 1..Len(sprints_data) : i \notin Range(selected)

(* ------------------------------------------------------------------ *)
(* C20                                                                *)
(* ------------------------------------------------------------------ *)

\* A run_sprint call of sequential mode is in progress.
SequentialRun ==
    has_callback /\ spc \in { "batch_run", "continuous_run" } /\ tasks # << >>

\* C20: in sequential mode, whenever run_sprint is back at the head of its
\* loop after an iteration (advance, fix phase, BLOCKED, or reset after a
\* blocker recovery), the save callback has been called with the sprint as
\* that iteration left it, so before the next phase is executed; and the
\* callback changes no sprint of the file but the one with the same id: all
\* other sprints of the file are as the document holds them.
C20_SaveAfterTransition ==
    SequentialRun =>
        /\ (tasks[1].pc = "loop" /\ tasks[1].iteration >= 1) =>
              callback_arg = Some(tasks[1].sprint)
        /\ Len(file) = Len(sprints_data)
        /\ \A i \in 1..Len(file) :
              IF i = tasks[1].idx THEN file[i].id = tasks[1].sprint.id
              ELSE file[i] = sprints_data[i]

\* Sprint 2 was BLOCKED, the resolver recovered it, and the callback wrote the
\* reset sprint to the file before the next iteration.
C20_Witness ==
    /\ SequentialRun
    /\ tasks[1].idx = 2 /\ tasks[1].pc = "loop" /\ tasks[1].iteration = 1
    /\ backlog[2].status = Blocked
    /\ tasks[1].sprint.status = RunUnitTests
    /\ file[2] = tasks[1].sprint
    /\ file[1] = backlog[1] /\ file[3] = backlog[3]

(* ------------------------------------------------------------------ *)
(* C21                                                                *)
(* ------------------------------------------------------------------ *)

\* C21: a persistence failure inside the save callback, be it the load or
\* the write of the file, never makes run_sprint return an error: no
\* run_sprint call of sequential mode ends because its save failed.
C21_SaveFailureNeverAborts ==
    has_callback => \A k \in 1..Len(tasks) : tasks[k].result # "SaveFailed"

(* ------------------------------------------------------------------ *)
(* C22                                                                *)
(* ------------------------------------------------------------------ *)

\* The step is a loop iteration whose phase returned Err(_).
ErrorIteration == iteration' = iteration + 1 /\ last'.decision = Failed

\* C22 as claimed: an iteration whose phase returns an error leaves the
\* counters and the sprint as a retry decision at that status would.
C22_Original ==
    [][ErrorIteration =>
          /\ retry_count' = bump_retry(retry_count, sprint.status)
          /\ sprint' = after_retry(sprint, Count(retry_count', sprint.status))]_vars

\* C22 (amended): an iteration whose phase returns an error increments the
\* retry counter of the current status; if the counter has reached the
\* phase's max_retries (1 for a status without phase definition) the sprint
\* becomes BLOCKED with blocked_count = counter; otherwise the sprint is left
\* exactly as it was, at the same status, whether or not
\* uses_blocker_resolver is set and whether or not the phase has a fix phase.
C22_ErrorKeepsStatus ==
    [][ErrorIteration =>
          LET count == Count(retry_count, sprint.status) + 1 IN
          /\ retry_count' = bump_retry(retry_count, sprint.status)
          /\ IF count >= max_retries_of(sprint)
             THEN sprint' = [ sprint EXCEPT !.status = Blocked,
                                            !.blocked_count = Some(count) ]
             ELSE sprint' = sprint]_vars

\* The agent of a flagged sprint at RUN_UNIT_TESTS, a phase with a fix phase,
\* has failed to run; the sprint is still at RUN_UNIT_TESTS.
C22_Witness ==
    /\ pc = "loop" /\ last.decision = Failed /\ last.status = RunUnitTests
    /\ sprint.status = RunUnitTests /\ sprint.uses_blocker_resolver
    /\ sprint.workflow_type = Implementation
    /\ Count(retry_count, RunUnitTests) = 1

(* ------------------------------------------------------------------ *)
(* C23                                                                *)
(* ------------------------------------------------------------------ *)

\* C23: whatever the commit hook returns in an iteration that invokes it
\* (after an advance, or after a blocker recovery), the sprint and the retry
\* counters are what the advance or the recovery alone makes them, and
\* run_sprint goes on with its loop unless the save callback fails: a failing
\* commit changes nothing.
C23_CommitFailureSoft ==
    [][ (iteration' = iteration + 1 /\ commit'.called) =>
          /\ sprint' = IF sprint.status = Blocked THEN after_recovery(sprint)
                       ELSE [ sprint EXCEPT !.status = next_status(sprint)[1] ]
          /\ retry_count' = IF sprint.status = Blocked THEN retry_count
                            ELSE insert(retry_count, sprint.status, 0)
          /\ (pc' = "loop" /\ result' = result) \/ result' = "SaveFailed" ]_vars

\* The hook has returned Err after an advancing phase; the sprint has advanced
\* and run_sprint is at the head of its loop.
C23_Witness ==
    /\ commit.called /\ commit.result = "Err"
    /\ last.decision = Advance /\ last.status = WriteCode
    /\ sprint.status # last.status /\ sprint.status # Blocked
    /\ pc = "loop" /\ result = "none"

(* ------------------------------------------------------------------ *)
(* C24                                                                *)
(* ------------------------------------------------------------------ *)

\* The phases after which a commit is made.
CommitPhases ==
    { WriteCode, WriteUnitTests, WriteE2eTests, CodeReview, RunUnitTests,
      RunE2eTests, ReviewFix, UnitFix, E2eFix, Done, Complete }

C25_NoCommitAfterFix ==
    /\ \A s \in { WriteCode, WriteUnitTests, WriteE2eTests, Done } :
          should_commit_after_phase(s)
    /\ (last.decision = Advance /\ last.status \in FixStatuses) =>
          /\ ~should_commit_after_phase(last.status)
          /\ ~commit.called

(* ------------------------------------------------------------------ *)
(* C26                                                                *)
(* ------------------------------------------------------------------ *)

\* The loop never runs more than max_iterations iterations, and what
\* run_sprint returns when its loop ends: MaxIterationsExceeded exactly when
\* the bound is reached with the sprint not DONE, Ok when the sprint is DONE,
\* also when it became DONE in the last allowed iteration.
ReturnsByBound ==
    /\ iteration <= MaxIterations
    /\ result = "MaxIterationsExceeded" =>
          (pc = "returned" /\ iteration = MaxIterations /\ ~is_done(sprint))
    /\ (pc = "returned" /\ result \notin { "SprintBlocked", "SaveFailed" }) =>
          /\ is_done(sprint) \/ iteration = MaxIterations
          /\ result = IF is_done(sprint) THEN "Ok" ELSE "MaxIterationsExceeded"

\* C26: run_sprint always terminates, after at most max_iterations loop
\* iterations whatever the agents do; it returns MaxIterationsExceeded
\* exactly when its loop ends at the bound with the sprint not DONE, and Ok
\* when the sprint is DONE, also if that happened in the last allowed
\* iteration.
C26_Terminates == []ReturnsByBound /\ <>(pc = "returned")

\* The sprint became DONE in the last allowed iteration and run_sprint
\* returned Ok.
C26_Witness ==
    /\ pc = "returned" /\ result = "Ok"
    /\ iteration = MaxIterations /\ is_done(sprint)
    /\ last.status = Complete /\ last.decision = Advance

(* ------------------------------------------------------------------ *)
(* C27                                                                *)
(* ------------------------------------------------------------------ *)

\* The position of the first line of output that is marker (0: none).
first_index(output, marker) ==
    IF contains(output, marker)
    THEN CHOOSE i \in 1..Len(output) :
            output[i] = marker /\ \A j \in 1..(i - 1) : output[j] # marker
    ELSE 0

\* The PASSED and the FAILED marker of a parser.
PassedMarker(parser) == IF parser = "test" THEN TEST_PASSED ELSE REVIEW_PASSED
FailedMarker(parser) == IF parser = "test" THEN TEST_FAILED ELSE REVIEW_FAILED

\* C27: on an output that holds both the PASSED and the FAILED marker of the
\* parser's kind, the verdict is that of the marker that occurs first.
C27_FirstMarkerWins ==
    parse_result # None =>
        LET r == parse_result[1]
            p == first_index(parse_input, PassedMarker(r.parser))
            f == first_index(parse_input, FailedMarker(r.parser))
        IN  (p > 0 /\ f > 0) => r.passed = (p < f)

(* ------------------------------------------------------------------ *)
(* C28                                                                *)
(* ------------------------------------------------------------------ *)

\* The agent run of the last iteration succeeded with an output without any
\* marker, at a status whose output is parsed.
UnmarkedSuccess ==
    /\ last.status \in ValidationStatuses
    /\ last.outcome.kind = "result" /\ last.outcome.success
    /\ \A m \in { TEST_PASSED, TEST_FAILED, REVIEW_PASSED, REVIEW_FAILED } :
          ~contains(last.outcome.output, m)

\* C28: a successful test-runner or reviewer run whose output holds no
\* marker is taken as passed: the iteration advances, and the sprint leaves
\* RUN_UNIT_TESTS, RUN_E2E_TESTS or CODE_REVIEW forward, to a status that is
\* neither a fix phase nor BLOCKED.
C28_NoMarkerPasses ==
    /\ parse_test_results(<< >>) /\ parse_review_results(<< >>)
    /\ (UnmarkedSuccess /\ last.agent \notin { "missing", "none" }) =>
          /\ last.decision = Advance
          /\ sprint.status \notin FixStatuses \cup { Blocked, last.status }

\* The E2E test run printed no marker and the sprint has moved on.
C28_Witness ==
    /\ UnmarkedSuccess /\ last.status = RunE2eTests
    /\ last.decision = Advance
    /\ sprint.status # RunE2eTests

(* ------------------------------------------------------------------ *)
(* C29                                                                *)
(* ------------------------------------------------------------------ *)

\* The command has ended.
CommandEnded == spc \in { "done", "failed" }

\* A run_sprint call of the session ended with SprintBlocked: the
\* blocker-resolver failed and the sprint stays BLOCKED.
SomeSprintPermanentlyBlocked ==
    \/ handover.result = "SprintBlocked"
    \/ handover.prev_result = "SprintBlocked"
    \/ \E k \in 1..Len(tasks) : tasks[k].result = "SprintBlocked"

\* C29: the command ends with exit code 2 when a sprint ended permanently
\* blocked, with 1 when it failed otherwise, and with 0 only when no sprint
\* ended permanently blocked and nothing failed.
C29_ExitCodes ==
    CommandEnded =>
        /\ SomeSprintPermanentlyBlocked => exit_code(spc) = 2
        /\ (~SomeSprintPermanentlyBlocked /\ spc = "failed") => exit_code(spc) = 1
        /\ exit_code(spc) = 0 => (~SomeSprintPermanentlyBlocked /\ spc = "done")

(* ------------------------------------------------------------------ *)
(* C30                                                                *)
(* ------------------------------------------------------------------ *)

\* Sprint a is not after sprint b in the priority order: in progress before
\* not in progress, then critical before non-critical, then the lower id.
InProgress(s) == s.status \notin { Pending, Done }

NotAfter(a, b) ==
    \/ InProgress(a) /\ ~InProgress(b)
    \/ /\ InProgress(a) = InProgress(b)
       /\ a.must_complete_first /\ ~b.must_complete_first
    \/ /\ InProgress(a) = InProgress(b)
       /\ a.must_complete_first = b.must_complete_first
       /\ a.id <= b.id

\* C30: the sprint the sequential scheduler hands to run_sprint is first in
\* the priority order among those it chose from: in the batch, among the
\* sprints of the batch still to run, which are themselves in that order; in
\* the continuous loop, among the runnable sprints.
C30_PriorityOrder ==
    /\ \A i, j \in 1..Len(queue) :
          i < j => NotAfter(sprints_data[queue[i]], sprints_data[queue[j]])
    /\ \A k \in JustHandedOver :
          /\ handover.mode = "batch" =>
                \A i \in 1..Len(queue) : NotAfter(Handed(k), sprints_data[queue[i]])
          /\ handover.mode = "continuous" =>
                \A i \in runnable_continuous(sprints_data) :
                    NotAfter(Handed(k), sprints_data[i])

\* Sprint 2, in progress, is handed over before sprint 1, PENDING and of
\* lower id, which waits in the batch.
C30_Witness ==
    /\ JustHandedOver # {} /\ handover.mode = "batch" /\ handover.idx = 2
    /\ InProgress(sprints_data[2])
    /\ queue # << >> /\ Head(queue) = 1
    /\ sprints_data[1].status = Pending

(* ------------------------------------------------------------------ *)
(* C31                                                                *)
(* ------------------------------------------------------------------ *)

\* The sprints of the document whose id has the decimal string d.
Named(sprints, d) == { i \in 1..Len(sprints) : to_string(sprints[i].id) = d }

\* Every dependency of sprint i names no sprint or names DONE sprints only.
UnknownOrDone(sprints, i) ==
    \A d \in sprints[i].dependencies :
        \/ Named(sprints, d) = {}
        \/ \A j \in Named(sprints, d) : sprints[j].status = Done

\* C31: a dependency string that is the decimal string of no sprint's id
\* counts as satisfied.  A sprint that is not DONE and whose dependencies
\* are all unknown or DONE is in the selection the runnable filter made at
\* the start, and, unless an incomplete critical sprint holds it back, in
\* the runnable set of the continuous loop.
C31_UnknownDependencySatisfied ==
    /\ handover.selection = "runnable" =>
          \A i \in 1..Len(backlog) :
              (backlog[i].status # Done /\ UnknownOrDone(backlog, i))
              => i \in Range(selected)
    /\ spc = "continuous" =>
          \A i \in 1..Len(sprints_data) :
              ( /\ sprints_data[i].status # Done
                /\ UnknownOrDone(sprints_data, i)
                /\ (has_incomplete_critical(sprints_data)
                      => sprints_data[i].must_complete_first) )
              => i \in runnable_continuous(sprints_data)

\* Sprint 1, whose only dependency "01" names no sprint, was selected by the
\* runnable filter and is handed to run_sprint.
C31_Witness ==
    /\ handover.selection = "runnable"
    /\ backlog[1].dependencies = {"01"} /\ Named(backlog, "01") = {}
    /\ 1 \in Range(selected)
    /\ JustHandedOver # {} /\ handover.idx = 1

(* ------------------------------------------------------------------ *)
(* C32                                                                *)
(* ------------------------------------------------------------------ *)

\* The phase of the sprint's status in its workflow, as an Option.
PhaseOf(s) == get_phase(get_workflow_definition(s.workflow_type), s.status)

\* Ok(passed) as a decision.
Verdict(passed) == IF passed THEN Advance ELSE Retry

\* C32: the decision table of execute_phase.  For status PENDING or a phase
\* whose agent is "none" the decision is advance and no agent is invoked; an
\* agent result with success = false gives retry at every status; with
\* success = true the decision is the parsed TEST_RESULT verdict at
\* RUN_UNIT_TESTS and RUN_E2E_TESTS, the parsed REVIEW_STATUS verdict at
\* CODE_REVIEW, and advance at every other status whatever the output holds.
C32_DecisionTable ==
    (last # NoEntry /\ PhaseOf(sprint) # None) =>
        /\ (sprint.status = Pending \/ PhaseOf(sprint)[1].agent = "none") =>
              (last.decision = Advance /\ last.outcome = NoAgentRun)
        /\ (last.outcome.kind = "result" /\ ~last.outcome.success) =>
              last.decision = Retry
        /\ (last.outcome.kind = "result" /\ last.outcome.success) =>
              last.decision =
                  IF sprint.status \in { RunUnitTests, RunE2eTests }
                  THEN Verdict(parse_test_results(last.outcome.output))
                  ELSE IF sprint.status = CodeReview
                  THEN Verdict(parse_review_results(last.outcome.output))
                  ELSE Advance

\* The code implementer succeeded with an output that holds both FAILED
\* markers, and the phase advances.
C32_Witness ==
    /\ last.status = WriteCode
    /\ last.outcome.kind = "result" /\ last.outcome.success
    /\ contains(last.outcome.output, TEST_FAILED)
    /\ contains(last.outcome.output, REVIEW_FAILED)
    /\ last.decision = Advance

(* ------------------------------------------------------------------ *)
(* C33                                                                *)
(* ------------------------------------------------------------------ *)

\* C33: whenever execute_agent returns after it spawned the child, on the
\* normal path or on a failure writing the prompt or reading a line, the
\* child has been awaited.
C33_ChildAwaited ==
    (agent_run.pc = "returned" /\ agent_run.spawned) => agent_run.awaited

(* ------------------------------------------------------------------ *)
(* C34                                                                *)
(* ------------------------------------------------------------------ *)

\* The supervisor waits for a line of a stream the child still holds open.
SupervisorWaits ==
    \/ /\ agent_run.pc = "read_stdout"
       /\ agent_run.stdout_buf = 0 /\ agent_run.child # "exited"
    \/ /\ agent_run.pc = "read_stderr"
       /\ agent_run.stderr_buf = 0 /\ agent_run.child # "exited"

\* The child has something left to write and every stream it has something
\* left for is full.
ChildWaits ==
    /\ agent_run.child = "writing"
    /\ agent_run.out_left + agent_run.err_left > 0
    /\ agent_run.out_left > 0 => agent_run.stdout_buf = PipeCapacity
    /\ agent_run.err_left > 0 => agent_run.stderr_buf = PipeCapacity

\* C34: with a child that reads its stdin, writes finite amounts to stdout
\* and stderr in any interleaving through bounded pipes and exits,
\* execute_agent never deadlocks: the supervisor and the child never wait
\* for each other.
C34_NeverDeadlocks == ~(SupervisorWaits /\ ChildWaits)

(* ------------------------------------------------------------------ *)
(* C35                                                                *)
(* ------------------------------------------------------------------ *)

\* What execute_phase gets from the call that returned.
Returned ==
    IF agent_run.ret = "Err" THEN AgentErr
    ELSE AgentResult(agent_run.success, << >>)

\* C35: every failure of an agent invocation (the subprocess cannot be
\* spawned, an I/O failure while talking to it, a non-zero exit) comes back
\* as an AgentResult with success = false and error set, never as an error
\* return, so that execute_phase decides retry for all of them.
C35_FailuresAreResults ==
    (agent_run.pc = "returned" /\ agent_run.failure \in { "spawn", "io", "exit" }) =>
        /\ agent_run.ret = "Ok" /\ ~agent_run.success /\ agent_run.error
        /\ \A s \in InitialSprints :
              phase_agent(s) \notin { "missing", "none" }
              => execute_phase(s, Returned) = Retry

(* ------------------------------------------------------------------ *)
(* C36                                                                *)
(* ------------------------------------------------------------------ *)

\* C36: archival precedes overwrite.  Whenever the reviewer, the
\* unit-test-runner, the e2e-test-runner or the blocker-resolver is invoked
\* while a failure report of that agent for the sprint is in place, the
\* report has been copied to the archive before, or the copy failed and was
\* warned about; the agent runs in both cases.
C36_ArchivedBeforeRun ==
    ( /\ archive.tracked
      /\ failure_file(archive.agent) # "none"
      /\ archive.exists )
    => archive.outcome \in { "archived", "warned" }

(* ------------------------------------------------------------------ *)
(* C37                                                                *)
(* ------------------------------------------------------------------ *)

\* A pass of the continuous loop has run its sprint and goes on to the next
\* pass: run_sprint has returned, Ok or with MaxIterationsExceeded (every
\* save succeeded), and the loop does not break.
PassGoesOn ==
    /\ spc = "continuous_run" /\ tasks[1].pc = "returned"
    /\ tasks[1].result \in { "Ok", "MaxIterationsExceeded" }
    /\ ~stops_execution(tasks[1].result, tasks[1].sprint)

\* C37: the sequential continuous scheduler terminates whatever the agents
\* do; it never runs the same sprint again and again without bound.  Every
\* pass that goes on to another one has therefore moved the document: it
\* does not leave the sprint it ran exactly as it found it, which would put
\* the loop back at the same selection with the same sprints.
C37_PassMakesProgress ==
    PassGoesOn => sprints_data[tasks[1].idx] # handover.handed

(* ------------------------------------------------------------------ *)
(* C38                                                                *)
(* ------------------------------------------------------------------ *)

\* The run_sprint calls of a session started with --sprint on a sprint that
\* was DONE in the backlog.
ExplicitOnDone ==
    { k \in 1..Len(tasks) :
        handover.selection = "explicit" /\ backlog[tasks[k].idx].status = Done }

\* C38: DONE is absorbing for the start command.  No runnable set holds a
\* DONE sprint and no selection other than --sprint hands one to run_sprint;
\* run_sprint on a DONE sprint executes no iteration (no agent, no call of
\* the save callback) and leaves the status DONE; and the end of run_sprint
\* never assigns a completed_at that is already set.
C38_DoneAbsorbing ==
    /\ \A i \in runnable_initial(sprints_data) \cup runnable_continuous(sprints_data) :
          sprints_data[i].status # Done
    /\ \A k \in JustHandedOver :
          handover.selection # "explicit" => Handed(k).status # Done
    /\ \A k \in ExplicitOnDone :
          /\ tasks[k].iteration = 0
          /\ callback_arg = None
          /\ tasks[k].sprint.status = Done
          /\ tasks[k].sprint.completed_at
    /\ \A k \in 1..Len(tasks) :
          tasks[k].sprint.completed_at => ~sets_completed_at(tasks[k].sprint)

\* --sprint 2 on a DONE sprint 2: run_sprint has returned Ok without an
\* iteration.
C38_Witness ==
    /\ ExplicitOnDone # {}
    /\ tasks[1].pc = "returned" /\ tasks[1].result = "Ok"
    /\ tasks[1].iteration = 0 /\ tasks[1].sprint.status = Done

(* ------------------------------------------------------------------ *)
(* autoflow-cli/src/commands/rollback.rs: the rollback command        *)
(* ------------------------------------------------------------------ *)

\* Largest number of sprints in the document the command is run on.
MaxRollbackSprints == 2

\* Task, as far as the command touches it: the status, the four lifecycle
\* timestamps and the git commit (set or None).
RollbackTask(st, committed, reviewed, tested, finished, git) ==
    [ status |-> st, committed_at |-> committed, reviewed_at |-> reviewed,
      tested_at |-> tested, done_at |-> finished, git_commit |-> git ]

\* The task lists the documents are built from: none, one finished task, a
\* committed task followed by an untouched one, a finished and a reviewed one.
RollbackTaskLists ==
    { << >>,
      << RollbackTask("DONE", TRUE, TRUE, TRUE, TRUE, TRUE) >>,
      << RollbackTask("COMMITTED", TRUE, FALSE, FALSE, FALSE, TRUE),
         RollbackTask("PENDING", FALSE, FALSE, FALSE, FALSE, FALSE) >>,
      << RollbackTask("DONE", TRUE, TRUE, TRUE, TRUE, TRUE),
         RollbackTask("REVIEWED", TRUE, TRUE, FALSE, FALSE, TRUE) >> }

\* << status, started, completed_at >> of the sprints of the documents.
RollbackProgress ==
    { << Pending, FALSE, FALSE >>, << WriteCode, TRUE, FALSE >>,
      << Blocked, TRUE, FALSE >>, << Done, TRUE, TRUE >> }

\* Sprint, as far as the command touches it; last_updated is "old" until the
\* command stamps it.
RollbackSprint(id, progress, list) ==
    [ id |-> id, status |-> progress[1], started |-> progress[2],
      completed_at |-> progress[3], last_updated |-> "old", tasks |-> list ]

\* SPRINTS.yml: n sprints, their ids 1..n in ascending or descending order,
\* shape[i] the progress and the task list of the i-th.
RollbackDocument(n, descending, shape) ==
    [ i \in 1..n |->
        RollbackSprint(IF descending THEN n + 1 - i ELSE i,
                       shape[i][1], shape[i][2]) ]

\* The filter of the default target: status != Done && status != Pending.
is_active(s) == s.status # Done /\ s.status # Pending

\* The sprint to roll back: the id given, else max_by_key(id) over the
\* active sprints; None when there is none ("No active sprint to rollback").
rollback_target(sprints, arg) ==
    IF arg # None THEN arg
    ELSE LET active == { i \in DOMAIN sprints : is_active(sprints[i]) }
         IN  IF active = {} THEN None
             ELSE LET best == CHOOSE i \in active :
                                 \A j \in active :
                                    \/ sprints[j].id < sprints[i].id
                                    \/ sprints[j].id = sprints[i].id /\ j <= i
                  IN  Some(sprints[best].id)

\* sprints.iter_mut().find(|s| s.id == sprint_id): the position of the
\* first sprint with the id, 0 when there is none.
find_sprint(sprints, sprint_id) ==
    LET hits == { i \in DOMAIN sprints : sprints[i].id = sprint_id }
    IN  IF hits = {} THEN 0 ELSE CHOOSE i \in hits : \A j \in hits : i <= j

\* The body of the loop over sprint.tasks.
reset_task(t) ==
    [ t EXCEPT !.status = "PENDING", !.committed_at = FALSE,
               !.reviewed_at = FALSE, !.tested_at = FALSE,
               !.done_at = FALSE, !.git_commit = FALSE ]

reset_sprint_status_only(s) ==
    [ s EXCEPT !.status = Pending, !.started = FALSE,
               !.completed_at = FALSE, !.last_updated = "now" ]

\* The reset of the sprint and of every task of it.
reset_sprint(s) ==
    [ s EXCEPT !.status = Pending, !.started = FALSE,
               !.completed_at = FALSE, !.last_updated = "now",
               !.tasks = [ k \in DOMAIN s.tasks |-> reset_task(s.tasks[k]) ] ]

\* One run of the command: its argument, whether SPRINTS.yml and .git
\* exist, the document on disk (and as it was at the start), the document
\* in memory, the id and the position of the target.
RollbackRun(doc, arg, exists, git) ==
    [ pc |-> "start", sprint |-> arg, exists |-> exists, git |-> git,
      before |-> doc, file |-> doc, sprints_data |-> << >>,
      sprint_id |-> None, idx |-> 0, ret |-> "none", error |-> "none" ]

rollback_err(r, why) == [ r EXCEPT !.pc = "returned", !.ret = "Err", !.error = why ]

RollbackInit ==
    /\ \E n \in 1..MaxRollbackSprints, descending \in BOOLEAN :
         \E shape \in [ 1..n -> RollbackProgress \X RollbackTaskLists ] :
           \E arg \in { None } \cup { Some(id) : id \in 1..(n + 1) },
              exists \in BOOLEAN, git \in BOOLEAN :
             rollback = RollbackRun(RollbackDocument(n, descending, shape),
                                    arg, exists, git)
    /\ agent_run = [ pc |-> "none" ]
    /\ RunIdle
    /\ StartIdle
    /\ ParserIdle

\* bail! when SPRINTS.yml does not exist, else SprintsYaml::load(..)?.
RollbackLoad ==
    /\ rollback.pc = "start"
    /\ \/ /\ ~rollback.exists
          /\ rollback' = rollback_err(rollback, "not initialized")
       \/ /\ rollback.exists
          /\ \/ rollback' = rollback_err(rollback, "load")
             \/ rollback' = [ rollback EXCEPT !.pc = "select",
                                              !.sprints_data = rollback.file ]
    /\ UNCHANGED << agent_run, runvars, startvars, parservars >>

\* The choice of the sprint id.
RollbackSelect ==
    /\ rollback.pc = "select"
    /\ LET target == rollback_target(rollback.sprints_data, rollback.sprint)
       IN  IF target = None
           THEN rollback' = rollback_err(rollback, "no active sprint")
           ELSE rollback' = [ rollback EXCEPT !.pc = "find", !.sprint_id = target ]
    /\ UNCHANGED << agent_run, runvars, startvars, parservars >>

\* The search for the sprint with that id.
RollbackFind ==
    /\ rollback.pc = "find"
    /\ LET i == find_sprint(rollback.sprints_data, rollback.sprint_id[1])
       IN  IF i = 0
           THEN rollback' = rollback_err(rollback, "not found")
           ELSE rollback' = [ rollback EXCEPT !.pc = "worktree", !.idx = i ]
    /\ UNCHANGED << agent_run, runvars, startvars, parservars >>

\* With a .git directory: WorktreeManager::new(".")?, then the deletion of
\* the worktree and the pruning, whose results are ignored.
RollbackWorktree ==
    /\ rollback.pc = "worktree"
    /\ \/ rollback' = [ rollback EXCEPT !.pc = "reset" ]
       \/ /\ rollback.git
          /\ rollback' = rollback_err(rollback, "git")
    /\ UNCHANGED << agent_run, runvars, startvars, parservars >>

\* The reset of the sprint in memory.
RollbackReset ==
    /\ rollback.pc = "reset"
    /\ rollback' = [ rollback EXCEPT
                       !.pc = "save",
                       !.sprints_data[rollback.idx] = reset_sprint(@) ]
    /\ UNCHANGED << agent_run, runvars, startvars, parservars >>

\* sprints_data.save(..)?, then Ok(()).
RollbackSave ==
    /\ rollback.pc = "save"
    /\ \/ rollback' = rollback_err(rollback, "save")
       \/ rollback' = [ rollback EXCEPT !.pc = "returned", !.ret = "Ok",
                                        !.file = rollback.sprints_data ]
    /\ UNCHANGED << agent_run, runvars, startvars, parservars >>

RollbackNext ==
    \/ RollbackLoad
    \/ RollbackSelect
    \/ RollbackFind
    \/ RollbackWorktree
    \/ RollbackReset
    \/ RollbackSave

RollbackSpec == RollbackInit /\ [][RollbackNext]_vars

(* ------------------------------------------------------------------ *)
(* C39                                                                *)
(* ------------------------------------------------------------------ *)

\* The positions of the sprint the command is to roll back: the sprint with
\* the id given, or without one the active sprint with the highest id.
RollbackOf(doc, arg) ==
    IF arg # None
    THEN { i \in DOMAIN doc : doc[i].id = arg[1] }
    ELSE { i \in DOMAIN doc :
             /\ is_active(doc[i])
             /\ \A j \in DOMAIN doc : is_active(doc[j]) => doc[j].id <= doc[i].id }

\* The sprint is PENDING with started and completed_at cleared, and every
\* task of it is PENDING with its timestamps and its git commit cleared.
RolledBack(s) ==
    /\ s.status = Pending /\ ~s.started /\ ~s.completed_at
    /\ \A k \in DOMAIN s.tasks :
          /\ s.tasks[k].status = "PENDING"
          /\ ~s.tasks[k].committed_at /\ ~s.tasks[k].reviewed_at
          /\ ~s.tasks[k].tested_at /\ ~s.tasks[k].done_at
          /\ ~s.tasks[k].git_commit

\* C39: a rollback that returns Ok has rolled back sprint S (the sprint
\* with the id given, or else the highest-id sprint that is neither DONE nor
\* PENDING): in the document on disk S is PENDING, started and completed_at
\* are cleared, every task of S is PENDING with its lifecycle timestamps and
\* its git commit cleared, S keeps its id and its number of tasks, and every
\* other sprint is as it was.  Without an id and without such a sprint the
\* command returns an error; and whenever it returns an error the document
\* on disk is as it was.
C39_RollbackResetsOnlyTarget ==
    rollback.pc = "returned" =>
        /\ (rollback.sprint = None /\ RollbackOf(rollback.before, None) = {}) =>
              rollback.ret = "Err"
        /\ rollback.ret = "Err" => rollback.file = rollback.before
        /\ rollback.ret = "Ok" =>
              /\ DOMAIN rollback.file = DOMAIN rollback.before
              /\ \E i \in RollbackOf(rollback.before, rollback.sprint) :
                    /\ RolledBack(rollback.file[i])
                    /\ rollback.file[i].id = rollback.before[i].id
                    /\ DOMAIN rollback.file[i].tasks = DOMAIN rollback.before[i].tasks
                    /\ \A j \in DOMAIN rollback.before :
                          j # i => rollback.file[j] = rollback.before[j]

\* A rollback without an id has returned Ok on a document with two active
\* sprints: the one with the higher id, which had a finished task, is the
\* one that was reset.
C39_Witness ==
    /\ rollback.pc = "returned" /\ rollback.ret = "Ok"
    /\ rollback.sprint = None
    /\ \E i, j \in DOMAIN rollback.before :
          /\ is_active(rollback.before[i]) /\ is_active(rollback.before[j])
          /\ rollback.before[j].id < rollback.before[i].id
          /\ i < j
          /\ \E k \in DOMAIN rollback.before[i].tasks :
                rollback.before[i].tasks[k].status = "DONE"
          /\ rollback.file[i] # rollback.before[i]
          /\ rollback.file[j] = rollback.before[j]

====
